---- MODULE Spec2Model ----
(***************************************************************************)
(* Model of the toponymic database loaders and extractor.                  *)
(*                                                                         *)
(*   Spec       the two database loaders (src/process_osm_data.py, one     *)
(*              pooled connection per load; src/scripts/import/            *)
(*              process_osm_data.py, one connection per statement) writing *)
(*              Entity and Name rows into one store, run after run         *)
(*   SpecRetry  get_resilient_db_connection under its tenacity policy      *)
(*   SpecFilter the extraction filter of MariupolExtractor                 *)
(*                                                                         *)
(* Text values are sequences of character tokens, so that strip(), lower() *)
(* and substring tests are computed and not assumed.  Non-ASCII letters    *)
(* are written as tokens: "uk_i" is the Ukrainian letter i, "ru_y" the     *)
(* Russian letter yeru.                                                    *)
(***************************************************************************)
EXTENDS Integers, Sequences, FiniteSets, TLC

\* ------------------------------------------------------------------ bounds
MaxFeatures == 2
MaxRuns == 2
MaxDate == 2
MaxFailures == 1
MaxCalls == 8
MaxPrims == 2
MaxTime == 2
MaxStream == 3
MaxNodeId == 2
MaxRefs == 3

\* ------------------------------------------------------------- text values
NULL == <<>>

Whitespace == {" "}

RECURSIVE LStrip(_)
LStrip(s) ==
    IF s = <<>> THEN <<>>
    ELSE IF Head(s) \in Whitespace THEN LStrip(Tail(s)) ELSE s

RECURSIVE RStrip(_)
RStrip(s) ==
    IF s = <<>> THEN <<>>
    ELSE IF s[Len(s)] \in Whitespace THEN RStrip(SubSeq(s, 1, Len(s) - 1)) ELSE s

\* str.strip()
Strip(s) == RStrip(LStrip(s))

\* `not name_value or not name_value.strip()`
IsBlank(name_value) == name_value = <<>> \/ Strip(name_value) = <<>>

UkrChars == {"uk_i", "uk_yi", "uk_ye", "uk_g", "uk_I", "uk_YI", "uk_YE", "uk_G"}
RusChars == {"ru_y", "ru_E", "ru_Y"}

HasAny(chars, value) == \E i \in 1..Len(value) : value[i] \in chars

vFoo == <<"F", "o", "o">>
vA == <<"A">>
vB == <<"B">>
vE == <<"E", "n">>
vBlank == <<" ", " ">>
vRus == <<"M", "ru_y", "s">>
vR == <<"R", "u">>

Tag(k, v) == [k |-> k, v |-> v]

\* The name_tags of the features a load is given, in tag order (the
\* iteration order of the dict built from the element's tags).
NameTagChoices ==
    { <<Tag("name", vFoo)>>,
      <<Tag("name", vA), Tag("name:uk", vB)>>,
      <<Tag("name:en", vE), Tag("name", vBlank)>>,
      <<Tag("name", vRus), Tag("name:ru", vR)>>,
      <<Tag("name", vBlank)>> }

\* handler.features: the features of one input file, osm ids 1..n
FeatureLists ==
    UNION { [1..n -> NameTagChoices] : n \in 1..MaxFeatures }

QueryDates == 1..MaxDate

\* ------------------------------------------------------------------- state
VARIABLES
    features,       \* the input: name_tags of each feature, by position
    loader,         \* 1: src/process_osm_data.py, 2: src/scripts/import/process_osm_data.py
    run,            \* number of load runs started
    query_date,     \* valid_start of the running load
    pc,             \* position of the running load
    idx,            \* index of the feature being imported
    nameIdx,        \* index of the name tag being imported
    entity_id,      \* entity_id returned for the current feature, 0 if none
    entities,       \* toponyms.entities, committed rows
    names,          \* toponyms.names, committed rows
    txEntities,     \* rows written by the open transaction of loader 1
    txNames,        \* rows written by the open transaction of loader 1
    entity_seq,     \* sequence behind entities.entity_id
    name_seq,       \* row identity of names rows
    checkedOut,     \* connections acquired and not yet released
    inserted_count, \* loader 2's counter
    connectCalls,   \* psycopg2.connect calls of the current get_connection block
    exitCode,       \* exit code of the last finished run, -1 while none
    fatal,          \* the running load hit a fatal error
    log,            \* history: what each feature's insert sequence did
    added,          \* history: names rows really added for the current feature
    rowsAfter,      \* history: number of names rows after each finished run
    commits,        \* history: the runs of loader 1 whose conn.commit() succeeded
    failures,       \* history: number of failures injected so far
    \* --- get_resilient_db_connection (SpecRetry)
    outcomes,       \* what db_pool.getconn() does at each attempt
    attempt_number, \* tenacity's attempt counter
    retry_pc,       \* "call", "sleep", "returned", "raised"
    raised,         \* the exception that reached the caller
    waits,          \* history: the seconds slept before each further attempt
    \* --- MariupolExtractor (SpecFilter)
    prim,           \* the primitive handed to the last callback, NULL if none
    accepted,       \* whether the last callback passed it to the writer
    target_timestamp, \* cutoff, NULL if none
    written,        \* positions in the stream of the primitives passed to the writer
    processed_count,
    extracted_count,
    \* --- OSMDataLoader / OSMDataHandler, the decode pass (SpecDecode)
    handler_class,  \* "OSMDataLoader" (scripts/import) or "OSMDataHandler" (import_osm_pbf)
    decode_pc,      \* "off", "run", "aborted"
    stream_pos,     \* history: number of primitives decoded so far
    nodes,          \* self.nodes: node id -> <<lon, lat>>
    handler_features, \* self.features
    decoded,        \* the primitive handed to the last callback
    resolved,       \* history: per node_ref of the last way, NULL or <<coordinate>>
    coords,         \* coords of the last way callback
    appended,       \* history: the last callback appended a feature
    puts,           \* history: every <<id, coordinate>> ever stored in self.nodes
    decodedIds,     \* history: ids of the nodes decoded so far
    latest,         \* history: node id -> <<lon, lat>> of its last decoded version
    processed_objects_count,
    extracted_objects_count,
    \* --- the classification step of the loaders (SpecClassify)
    feature_row,    \* the feature row handed to the step
    classify_pc,    \* "off", "ready", "done"
    classifier,     \* the loader whose step ran
    mapped_entity_type, \* its result: the type after the tag rules, after the
                        \* geometry default and as inserted; or the error raised
    \* --- OSMDatabaseLoader and load_osm_file (SpecBatch)
    osm_file,       \* the records of the input file, in stream order
    file_pos,       \* number of records handed to the callbacks
    raw_loads,      \* number of load_osm_file calls started
    batch_pc,       \* "off", "idle", "apply", "done", "aborted"
    batch,          \* node_batch, way_batch, relation_batch, by primitive kind
    stats,          \* stats['<kind>s_processed'], stats['<kind>s_inserted']
    osm_data,       \* the tables osm_data.nodes / ways / relations: id -> row
    submitted,      \* history: the records passed to executemany, by kind
    discarded,      \* history: number of records of batches whose flush failed
    flush_failed,   \* history: number of failed flushes, by kind
    last_flush,     \* history: how the last flush ended: "none", "ok", "error", "lost"
    osm_data_after, \* history: the tables after each load that returned True
    \* --- extract_mariupol_data (SpecExtract)
    input_keeps,    \* the input: per primitive, whether its callback writes it
    input_pos,      \* number of primitives processed
    extract_pc,     \* "off", "start", "apply", "close", "returned", "raised"
    output_file,    \* the file at the output path: NULL, or <<objects written>>
    writer_closed,  \* writer.close() has returned
    extract_result  \* the value extract_mariupol_data returned, NULL if none

loadVars == <<features, loader, run, query_date, pc, idx, nameIdx, entity_id,
              entities, names, txEntities, txNames, entity_seq, name_seq,
              checkedOut, inserted_count, connectCalls, exitCode, fatal, log,
              added, rowsAfter, commits, failures>>
retryVars == <<outcomes, attempt_number, retry_pc, raised, waits>>
filterVars == <<prim, accepted, target_timestamp, written, processed_count, extracted_count>>
decodeVars == <<handler_class, decode_pc, stream_pos, nodes, handler_features, decoded,
                resolved, coords, appended, puts, decodedIds, latest,
                processed_objects_count, extracted_objects_count>>
classifyVars == <<feature_row, classify_pc, classifier, mapped_entity_type>>
batchVars == <<osm_file, file_pos, raw_loads, batch_pc, batch, stats, osm_data,
               submitted, discarded, flush_failed, last_flush, osm_data_after>>
extractVars == <<input_keeps, input_pos, extract_pc, output_file, writer_closed,
                 extract_result>>
vars == <<loadVars, retryVars, filterVars, decodeVars, classifyVars, batchVars,
          extractVars>>

\* ------------------------------------------------------------------- store
\* tstzrange(valid_start, valid_end): [valid_start, valid_end), unbounded
\* above when valid_end is NULL; valid_end is NULL or <<t>>
RangeOverlap(s1, e1, s2, e2) ==
    /\ (e2 = NULL \/ s1 < e2[1])
    /\ (e1 = NULL \/ s2 < e1[1])

\* The rule behind `ON CONFLICT ON CONSTRAINT
\* names_entity_text_lang_type_timespan_excl` of loader 1.  The constraint is
\* created by the schema scripts, which are not among the sources; it is
\* taken from the data model: no two rows of one (entity_id, language_code,
\* name_type) with overlapping validity intervals.
ExclusionConstraint(r, new) ==
    /\ r.entity_id = new.entity_id
    /\ r.language_code = new.language_code
    /\ r.name_type = new.name_type
    /\ RangeOverlap(r.valid_start, r.valid_end, new.valid_start, new.valid_end)

\* mutant: the arbiter also compares name_text
ConflictTarget2_text(r, new) ==
    /\ r.entity_id = new.entity_id
    /\ r.name_text = new.name_text
    /\ r.language_code = new.language_code
    /\ r.name_type = new.name_type
    /\ r.valid_start = new.valid_start
    /\ r.valid_end = new.valid_end

\* loader 2: ON CONFLICT (entity_id, language_code, name_type,
\*           tstzrange(valid_start, valid_end)) WHERE txn_end IS NULL
ConflictTarget2(r, new) ==
    /\ r.entity_id = new.entity_id
    /\ r.language_code = new.language_code
    /\ r.name_type = new.name_type
    /\ r.valid_start = new.valid_start
    /\ r.valid_end = new.valid_end

\* mutant: a plain INSERT, the ON CONFLICT clause left out
NameInsert1_plain(visible, row) == {row}

\* loader 1: INSERT INTO toponyms.names ... ON CONFLICT ON CONSTRAINT ... DO
\* NOTHING; the rows the statement adds, given the rows it can see
NameInsert1(visible, row) ==
    IF \E r \in visible : ExclusionConstraint(r, row) THEN {} ELSE {row}

\* loader 2: INSERT INTO toponyms.names ... ON CONFLICT (...) DO NOTHING
NameInsert2(visible, row) ==
    IF \E r \in visible : ConflictTarget2(r, row) THEN {} ELSE {row}

\* loader 1: language of a name tag
LangCode1(name_tag) ==
    IF name_tag = "name:uk" THEN "ukr"
    ELSE IF name_tag = "name:ru" THEN "rus"
    ELSE IF name_tag = "name:en" THEN "eng"
    ELSE IF name_tag = "name" THEN "ukr"
    ELSE "und"

\* loader 2: language of a name tag and its value
LangCode2(name_tag, name_value) ==
    IF name_tag = "name" THEN
        IF HasAny(UkrChars, name_value) THEN "ukr"
        ELSE IF HasAny(RusChars, name_value) THEN "rus"
        ELSE "ukr"
    ELSE IF name_tag = "name:uk" THEN "ukr"
    ELSE IF name_tag = "name:ru" THEN "rus"
    ELSE IF name_tag = "name:en" THEN "eng"
    ELSE "und"

\* loader 2: script of a name tag
ScriptCode2(name_tag) ==
    IF name_tag \in {"name", "name:uk", "name:ru"} THEN "Cyrl" ELSE "Latn"

\* a toponyms.names row as loader 1 writes it (script_code is not set)
NameRow1(id, eid, tag, valid_start) ==
    [name_id |-> id, entity_id |-> eid, name_text |-> tag.v,
     language_code |-> LangCode1(tag.k), script_code |-> "default",
     name_type |-> "official", valid_start |-> valid_start, valid_end |-> NULL]

\* a toponyms.names row as loader 2 writes it
NameRow2(id, eid, tag, valid_start) ==
    [name_id |-> id, entity_id |-> eid, name_text |-> tag.v,
     language_code |-> LangCode2(tag.k, tag.v), script_code |-> ScriptCode2(tag.k),
     name_type |-> "official", valid_start |-> valid_start, valid_end |-> NULL]

\* mutant: the entity row is keyed by the feature, not by a fresh id
NewEntityId_byFeature(seq, osm_id) == osm_id

\* INSERT INTO toponyms.entities ... RETURNING entity_id: a generated key
NewEntityId(seq, osm_id) == seq + 1

\* a toponyms.entities row
EntityRow(eid, osm_id, valid_start) ==
    [entity_id |-> eid, osm_id |-> osm_id, valid_start |-> valid_start,
     valid_end |-> NULL]

\* what get_resilient_db_connection gives its caller (see SpecRetry)
AcquireResults == {"conn", "RetryError", "PoolError"}

\* -------------------------------------------------------------- load runs
InitLoad ==
    /\ features \in FeatureLists
    /\ loader = 1
    /\ run = 0
    /\ query_date = 1
    /\ pc = "idle"
    /\ idx = 1
    /\ nameIdx = 1
    /\ entity_id = 0
    /\ entities = {}
    /\ names = {}
    /\ txEntities = {}
    /\ txNames = {}
    /\ entity_seq = 0
    /\ name_seq = 0
    /\ checkedOut = 0
    /\ inserted_count = 0
    /\ connectCalls = 0
    /\ exitCode = -1
    /\ fatal = FALSE
    /\ log = {}
    /\ added = {}
    /\ rowsAfter = <<>>
    /\ commits = {}
    /\ failures = 0

IdleRetry ==
    /\ outcomes = <<>>
    /\ attempt_number = 0
    /\ retry_pc = "idle"
    /\ raised = "none"
    /\ waits = <<>>

IdleFilter ==
    /\ prim = NULL
    /\ accepted = FALSE
    /\ target_timestamp = NULL
    /\ written = <<>>
    /\ processed_count = 0
    /\ extracted_count = 0

IdleDecode ==
    /\ handler_class = "OSMDataLoader"
    /\ decode_pc = "off"
    /\ stream_pos = 0
    /\ nodes = <<>>
    /\ handler_features = <<>>
    /\ decoded = NULL
    /\ resolved = <<>>
    /\ coords = <<>>
    /\ appended = FALSE
    /\ puts = {}
    /\ decodedIds = {}
    /\ latest = <<>>
    /\ processed_objects_count = 0
    /\ extracted_objects_count = 0

IdleClassify ==
    /\ feature_row = NULL
    /\ classify_pc = "off"
    /\ classifier = 0
    /\ mapped_entity_type = NULL

Kinds == {"node", "way", "relation"}

IdleBatch ==
    /\ osm_file = <<>>
    /\ file_pos = 0
    /\ raw_loads = 0
    /\ batch_pc = "off"
    /\ batch = [k \in Kinds |-> <<>>]
    /\ stats = [processed |-> [k \in Kinds |-> 0], inserted |-> [k \in Kinds |-> 0]]
    /\ osm_data = [k \in Kinds |-> <<>>]
    /\ submitted = [k \in Kinds |-> <<>>]
    /\ discarded = [k \in Kinds |-> 0]
    /\ flush_failed = [k \in Kinds |-> 0]
    /\ last_flush = "none"
    /\ osm_data_after = <<>>

\* no file at the output path
NoFile == [exists |-> FALSE, objects |-> <<>>]

IdleExtract ==
    /\ input_keeps = <<>>
    /\ input_pos = 0
    /\ extract_pc = "off"
    /\ output_file = NoFile
    /\ writer_closed = FALSE
    /\ extract_result = "none"

Init ==
    InitLoad /\ IdleRetry /\ IdleFilter /\ IdleDecode /\ IdleClassify /\ IdleBatch
    /\ IdleExtract

\* a failure is injected when a call does not succeed
Inject(ok) ==
    /\ ~ok => failures < MaxFailures
    /\ failures' = (IF ok THEN failures ELSE failures + 1)

\* a load run leaves the other components alone
LoadOnly == UNCHANGED <<retryVars, filterVars, decodeVars, classifyVars,
                   batchVars, extractVars>>

\* history: the insert sequence of feature idx ended
LogEntry(ok, cause, entityDone, eid, rows, connects) ==
    [run |-> run, loader |-> loader, osm_id |-> idx, ok |-> ok, cause |-> cause,
     entityDone |-> entityDone, entity_id |-> eid, added |-> rows,
     connects |-> connects]

\* the for loop goes on with the next row, or ends
NextRow(atEnd) ==
    /\ nameIdx' = 1
    /\ entity_id' = 0
    /\ added' = {}
    /\ IF idx < Len(features)
       THEN idx' = idx + 1 /\ pc' = (IF loader = 1 THEN "l1_entity" ELSE "l2_entity_open")
       ELSE idx' = idx /\ pc' = atEnd

\* main() of either loader is started on the input file
StartLoad(l, qd) ==
    /\ pc = "idle"
    /\ LoadOnly
    /\ run < MaxRuns
    /\ run' = run + 1
    /\ loader' = l
    /\ query_date' = qd
    /\ idx' = 1
    /\ nameIdx' = 1
    /\ entity_id' = 0
    /\ added' = {}
    /\ inserted_count' = 0
    /\ connectCalls' = 0
    /\ exitCode' = -1
    /\ fatal' = FALSE
    /\ pc' = (IF l = 1 THEN "l1_types" ELSE "l2_entity_open")
    /\ UNCHANGED <<features, entities, names, txEntities, txNames, entity_seq,
                   name_seq, checkedOut, log, rowsAfter, commits, failures>>

\* ---- loader 1: DataLoader of src/process_osm_data.py
\* get_valid_entity_types: conn = get_resilient_db_connection(self.db_pool)
L1TypesAcquire(r) ==
    /\ pc = "l1_types"
    /\ LoadOnly
    /\ r \in AcquireResults
    /\ Inject(r = "conn")
    /\ IF r = "conn"
       THEN /\ checkedOut' = checkedOut + 1
            /\ pc' = "l1_types_query"
            /\ fatal' = fatal
       ELSE IF r = "PoolError"
       THEN \* psycopg2.Error: the hardcoded list; conn is None in finally
            /\ checkedOut' = checkedOut
            /\ pc' = "l1_acquire"
            /\ fatal' = fatal
       ELSE \* RetryError is no psycopg2.Error: it leaves load_osm_data_to_db
            /\ checkedOut' = checkedOut
            /\ pc' = "exit"
            /\ fatal' = TRUE
    /\ UNCHANGED <<features, loader, run, query_date, idx, nameIdx, entity_id,
                   entities, names, txEntities, txNames, entity_seq, name_seq,
                   inserted_count, connectCalls, exitCode, log, added, rowsAfter, commits>>

\* mutant: the finally clause does not give the connection back
Release_leak(n) == n

\* self.db_pool.putconn(conn) / conn.close()
Release(n) == n - 1

\* get_valid_entity_types: the SELECT (or its psycopg2.Error and the
\* hardcoded list), then finally: putconn
L1TypesQuery(ok) ==
    /\ pc = "l1_types_query"
    /\ LoadOnly
    /\ Inject(ok)
    /\ checkedOut' = Release(checkedOut)
    /\ pc' = "l1_acquire"
    /\ UNCHANGED <<features, loader, run, query_date, idx, nameIdx, entity_id,
                   entities, names, txEntities, txNames, entity_seq, name_seq,
                   inserted_count, connectCalls, exitCode, fatal, log, added,
                   rowsAfter, commits>>

\* load_osm_data_to_db: conn = get_resilient_db_connection(self.db_pool)
L1Acquire(r) ==
    /\ pc = "l1_acquire"
    /\ LoadOnly
    /\ r \in AcquireResults
    /\ Inject(r = "conn")
    /\ IF r = "conn"
       THEN /\ checkedOut' = checkedOut + 1
            /\ pc' = "l1_entity"
            /\ fatal' = fatal
       ELSE \* except psycopg2.Error / except Exception: logged; conn is None
            /\ checkedOut' = checkedOut
            /\ pc' = "exit"
            /\ fatal' = TRUE
    /\ UNCHANGED <<features, loader, run, query_date, idx, nameIdx, entity_id,
                   entities, names, txEntities, txNames, entity_seq, name_seq,
                   inserted_count, connectCalls, exitCode, log, added, rowsAfter, commits>>

\* mutant: the rollback undoes the writes of the failing feature only
Rollback1_savepoint(tx, eid) == {r \in tx : r.entity_id # eid}

\* conn.rollback(): everything written since the last commit is undone
Rollback1(tx, eid) == {}

\* the except clause of the loop: rollback, continue
L1FeatureFailed(entityDone, eid) ==
    /\ txEntities' = Rollback1(txEntities, eid)
    /\ txNames' = Rollback1(txNames, eid)
    /\ log' = log \cup {LogEntry(FALSE, "statement", entityDone, eid, {}, 0)}
    /\ NextRow("l1_commit")

\* the connection is gone: conn.rollback() raises in the except clause of the
\* loop and again in `except psycopg2.Error`; finally: putconn; the error
\* leaves load_osm_data_to_db
L1ConnectionLost(entityDone, eid) ==
    /\ txEntities' = {}
    /\ txNames' = {}
    /\ log' = log \cup {LogEntry(FALSE, "lost", entityDone, eid, {}, 0)}
    /\ checkedOut' = Release(checkedOut)
    /\ fatal' = TRUE
    /\ pc' = "exit"
    /\ UNCHANGED <<idx, nameIdx, entity_id, added>>

\* get_entity_type(properties, geom_type) of loader 1 is called but defined in
\* none of the sources; by the design of the classifier it is total: it
\* returns an entity type for every input and never raises.  The load runs
\* take the call to return, which is what reaches the statements after it;
\* Classify1 has the call as the module of loader 1 binds the name.
GetEntityTypeReturns == TRUE

\* get_entity_type(...), then cur.execute(sql_entity, ...);
\* entity_id = cur.fetchone()[0]
L1InsertEntity(out) ==
    /\ pc = "l1_entity"
    /\ LoadOnly
    /\ out \in {"ok", "error", "lost"}
    /\ ~GetEntityTypeReturns => out = "error"
    /\ Inject(out = "ok")
    /\ IF out = "ok"
       THEN LET eid == NewEntityId(entity_seq, idx) IN
            /\ entity_seq' = entity_seq + 1
            /\ entity_id' = eid
            /\ txEntities' = txEntities \cup {EntityRow(eid, idx, query_date)}
            /\ nameIdx' = 1
            /\ added' = {}
            /\ pc' = "l1_name"
            /\ UNCHANGED <<txNames, log, idx, checkedOut, fatal>>
       ELSE IF out = "error"
       THEN /\ L1FeatureFailed(FALSE, 0)
            /\ UNCHANGED <<entity_seq, checkedOut, fatal>>
       ELSE /\ L1ConnectionLost(FALSE, 0)
            /\ UNCHANGED entity_seq
    /\ UNCHANGED <<features, loader, run, query_date, entities, names, name_seq,
                   inserted_count, connectCalls, exitCode, rowsAfter, commits>>

\* one iteration of `for name_tag, name_value in row['name_tags'].items()`
L1InsertName(out) ==
    /\ pc = "l1_name"
    /\ LoadOnly
    /\ out \in {"ok", "error", "lost"}
    /\ LET tag == features[idx][nameIdx]
           last == nameIdx = Len(features[idx])
           row == NameRow1(name_seq + 1, entity_id, tag, query_date)
           new == IF IsBlank(tag.v) THEN {}
                  ELSE NameInsert1(names \cup txNames, row)
       IN
       /\ IsBlank(tag.v) => out = "ok"      \* continue: no statement is run
       /\ Inject(out = "ok")
       /\ IF out = "ok"
          THEN /\ txNames' = txNames \cup new
               /\ name_seq' = name_seq + Cardinality(new)
               /\ UNCHANGED <<txEntities, checkedOut, fatal>>
               /\ IF last
                  THEN /\ log' = log \cup {LogEntry(TRUE, "none", TRUE, entity_id,
                                                   added \cup {r.name_id : r \in new}, 0)}
                       /\ NextRow("l1_commit")
                  ELSE /\ nameIdx' = nameIdx + 1
                       /\ added' = added \cup {r.name_id : r \in new}
                       /\ UNCHANGED <<log, idx, entity_id, pc>>
          ELSE IF out = "error"
          THEN /\ L1FeatureFailed(TRUE, entity_id)
               /\ UNCHANGED <<name_seq, checkedOut, fatal>>
          ELSE /\ L1ConnectionLost(TRUE, entity_id)
               /\ UNCHANGED name_seq
    /\ UNCHANGED <<features, loader, run, query_date, entities, names,
                   entity_seq, inserted_count, connectCalls, exitCode, rowsAfter, commits>>

\* conn.commit() after the loop (or its psycopg2.Error and the rollback),
\* then finally: putconn
L1Commit(ok) ==
    /\ pc = "l1_commit"
    /\ LoadOnly
    /\ Inject(ok)
    /\ entities' = (IF ok THEN entities \cup txEntities ELSE entities)
    /\ names' = (IF ok THEN names \cup txNames ELSE names)
    /\ txEntities' = {}
    /\ txNames' = {}
    /\ commits' = (IF ok THEN commits \cup {run} ELSE commits)
    /\ checkedOut' = Release(checkedOut)
    /\ pc' = "exit"
    /\ UNCHANGED <<features, loader, run, query_date, idx, nameIdx, entity_id,
                   entity_seq, name_seq, inserted_count, connectCalls, exitCode,
                   fatal, log, added, rowsAfter>>

\* ---- loader 2: DataLoader of src/scripts/import/process_osm_data.py with
\* ---- DatabaseConnection of src/scripts/utils/database.py
\* Number of psycopg2.connect calls one `with self.db.get_connection()` makes.
\* @retry decorates the function that @contextmanager returns: the call only
\* builds the context manager and never raises, so tenacity returns after its
\* first attempt; connect runs later, in __enter__, outside the retry.
ConnectCalls(connect_ok) == 1

\* the except clause of the loop: the error is logged, nothing is undone
L2FeatureFailed(cause, entityDone, eid, connects) ==
    /\ log' = log \cup {LogEntry(FALSE, cause, entityDone, eid, added, connects)}
    /\ NextRow("exit")

\* insert_entity: `with self.get_connection() as conn`, up to the yield
L2EntityOpen(connect_ok) ==
    /\ pc = "l2_entity_open"
    /\ LoadOnly
    /\ Inject(connect_ok)
    /\ connectCalls' = ConnectCalls(connect_ok)
    /\ IF connect_ok
       THEN /\ checkedOut' = checkedOut + 1
            /\ pc' = "l2_entity_exec"
            /\ UNCHANGED <<log, idx, nameIdx, entity_id, added>>
       ELSE \* conn is None: nothing to roll back or close; raise
            /\ checkedOut' = checkedOut
            /\ L2FeatureFailed("connect", FALSE, 0, ConnectCalls(connect_ok))
    /\ UNCHANGED <<features, loader, run, query_date, entities, names,
                   txEntities, txNames, entity_seq, name_seq, inserted_count,
                   exitCode, fatal, rowsAfter, commits>>

\* insert_entity: execute, fetchone; conn.commit() (or rollback and raise);
\* finally: conn.close()
L2EntityExec(ok) ==
    /\ pc = "l2_entity_exec"
    /\ LoadOnly
    /\ Inject(ok)
    /\ checkedOut' = Release(checkedOut)
    /\ IF ok
       THEN LET eid == NewEntityId(entity_seq, idx) IN
            /\ entity_seq' = entity_seq + 1
            /\ entity_id' = eid
            /\ entities' = entities \cup {EntityRow(eid, idx, query_date)}
            /\ nameIdx' = 1
            /\ added' = {}
            /\ pc' = "l2_name_open"
            /\ UNCHANGED <<log, idx>>
       ELSE /\ L2FeatureFailed("statement", FALSE, 0, connectCalls)
            /\ UNCHANGED <<entity_seq, entities>>
    /\ UNCHANGED <<features, loader, run, query_date, names, txEntities,
                   txNames, name_seq, inserted_count, connectCalls, exitCode,
                   fatal, rowsAfter, commits>>

\* the name loop up to the yield of get_connection: a blank value is skipped
\* before any connection is opened
L2NameOpen(connect_ok) ==
    /\ pc = "l2_name_open"
    /\ LoadOnly
    /\ LET tag == features[idx][nameIdx]
           last == nameIdx = Len(features[idx])
       IN
       /\ IsBlank(tag.v) => connect_ok
       /\ Inject(connect_ok)
       /\ IF IsBlank(tag.v)
          THEN /\ UNCHANGED <<checkedOut, connectCalls>>
               /\ IF last
                  THEN /\ log' = log \cup {LogEntry(TRUE, "none", TRUE, entity_id, added, 0)}
                       /\ NextRow("exit")
                  ELSE /\ nameIdx' = nameIdx + 1
                       /\ UNCHANGED <<log, idx, entity_id, added, pc>>
          ELSE /\ connectCalls' = ConnectCalls(connect_ok)
               /\ IF connect_ok
                  THEN /\ checkedOut' = checkedOut + 1
                       /\ pc' = "l2_name_exec"
                       /\ UNCHANGED <<log, idx, nameIdx, entity_id, added>>
                  ELSE /\ checkedOut' = checkedOut
                       /\ L2FeatureFailed("connect", TRUE, entity_id,
                                          ConnectCalls(connect_ok))
    /\ UNCHANGED <<features, loader, run, query_date, entities, names,
                   txEntities, txNames, entity_seq, name_seq, inserted_count,
                   exitCode, fatal, rowsAfter, commits>>

\* the name insert: execute; conn.commit() (or rollback and raise); finally:
\* conn.close(); inserted_count += 1
L2NameExec(ok) ==
    /\ pc = "l2_name_exec"
    /\ LoadOnly
    /\ Inject(ok)
    /\ checkedOut' = Release(checkedOut)
    /\ LET tag == features[idx][nameIdx]
           last == nameIdx = Len(features[idx])
           row == NameRow2(name_seq + 1, entity_id, tag, query_date)
           new == NameInsert2(names, row)
       IN
       IF ok
       THEN /\ names' = names \cup new
            /\ name_seq' = name_seq + Cardinality(new)
            /\ inserted_count' = inserted_count + 1
            /\ IF last
               THEN /\ log' = log \cup {LogEntry(TRUE, "none", TRUE, entity_id,
                                                added \cup {r.name_id : r \in new}, 0)}
                    /\ NextRow("exit")
               ELSE /\ nameIdx' = nameIdx + 1
                    /\ added' = added \cup {r.name_id : r \in new}
                    /\ pc' = "l2_name_open"
                    /\ UNCHANGED <<log, idx, entity_id>>
       ELSE /\ L2FeatureFailed("statement", TRUE, entity_id, connectCalls)
            /\ UNCHANGED <<names, name_seq, inserted_count>>
    /\ UNCHANGED <<features, loader, run, query_date, entities, txEntities,
                   txNames, entity_seq, connectCalls, exitCode, fatal, rowsAfter, commits>>

\* exit code of the click command main() of either loader: every exception
\* is caught and logged, the command returns and click exits with 0
MainExitCode(l, fatalSeen) == 0

\* main() returns
Exit ==
    /\ pc = "exit"
    /\ LoadOnly
    /\ exitCode' = MainExitCode(loader, fatal)
    /\ rowsAfter' = Append(rowsAfter, Cardinality(names))
    /\ pc' = "idle"
    /\ UNCHANGED <<features, loader, run, query_date, idx, nameIdx, entity_id,
                   entities, names, txEntities, txNames, entity_seq, name_seq,
                   checkedOut, inserted_count, connectCalls, fatal, log, added,
                   commits, failures>>

Next ==
    \/ \E l \in {1, 2}, qd \in QueryDates : StartLoad(l, qd)
    \/ \E r \in AcquireResults : L1TypesAcquire(r)
    \/ \E ok \in BOOLEAN : L1TypesQuery(ok)
    \/ \E r \in AcquireResults : L1Acquire(r)
    \/ \E out \in {"ok", "error", "lost"} : L1InsertEntity(out)
    \/ \E out \in {"ok", "error", "lost"} : L1InsertName(out)
    \/ \E ok \in BOOLEAN : L1Commit(ok)
    \/ \E ok \in BOOLEAN : L2EntityOpen(ok)
    \/ \E ok \in BOOLEAN : L2EntityExec(ok)
    \/ \E ok \in BOOLEAN : L2NameOpen(ok)
    \/ \E ok \in BOOLEAN : L2NameExec(ok)
    \/ Exit

Spec == Init /\ [][Next]_vars

\* ------------------------------------------------------ claims on the loads
\* every names row the store holds, committed or written by the open
\* transaction
AllNames == names \cup txNames

\* number of name tags of a feature whose value is not blank
NonBlankTags(f) == Cardinality({i \in 1..Len(f) : ~IsBlank(f[i].v)})

\* two rows of one (entity_id, language_code, name_type) whose validity
\* intervals overlap
Overlapping(r, new) ==
    /\ r.entity_id = new.entity_id
    /\ r.language_code = new.language_code
    /\ r.name_type = new.name_type
    /\ RangeOverlap(r.valid_start, r.valid_end, new.valid_start, new.valid_end)

\* a load run is over
Finished == pc = "idle" /\ run >= 1

C2_ReloadAddsNoNameRow ==
    (Finished /\ run >= 2 /\ failures = 0 /\ Len(rowsAfter) >= 2)
        => rowsAfter[2] = rowsAfter[1]

\* the rows a feature's successful insert sequence wrote are in the store
Stored(e) ==
    /\ \E r \in entities : r.entity_id = e.entity_id
    /\ \A id \in e.added : \E r \in names : r.name_id = id

C4_FailedPrimitiveLeavesNoRow ==
    \A e \in log :
        (e.loader = 2 /\ ~e.ok /\ e.entityDone)
        => /\ ~\E r \in entities : r.entity_id = e.entity_id
           /\ ~\E r \in names : r.entity_id = e.entity_id

\* the name statement about to run, and the rows it can see
CurrentRow ==
    IF pc = "l1_name"
    THEN NameRow1(name_seq + 1, entity_id, features[idx][nameIdx], query_date)
    ELSE NameRow2(name_seq + 1, entity_id, features[idx][nameIdx], query_date)

\* a name statement is about to run whose row overlaps a stored row of the
\* same (entity_id, language_code, name_type)
OverlapPending ==
    /\ pc \in {"l1_name", "l2_name_exec"}
    /\ ~IsBlank(features[idx][nameIdx].v)
    /\ \E r \in AllNames : Overlapping(r, CurrentRow)

GetConnectionMaxAttempts == 10

\* C7 (as claimed): a transient connect failure under get_connection reaches
\* the caller only after 10 connection attempts.
C7_ConnectIsRetried ==
    \A e \in log : e.cause = "connect" => e.connects = GetConnectionMaxAttempts

\* C8: whenever get_valid_entity_types or load_osm_data_to_db has returned or
\* raised, and whenever no get_connection block is open, no connection is
\* checked out or open.
C8_ConnectionsReleased ==
    /\ checkedOut \in {0, 1}
    /\ pc \in {"idle", "exit", "l1_types", "l1_acquire", "l2_entity_open",
               "l2_name_open"} => checkedOut = 0

\* C8 witness: load_osm_data_to_db of loader 1 was left by an error after it
\* had acquired its connection, and a get_connection block of loader 2 was
\* left by an error.
C8_Witness ==
    /\ pc = "exit"
    /\ checkedOut = 0
    /\ \E e \in log : e.cause = "lost" \/ (e.loader = 2 /\ e.cause = "statement")

\* C9 (as claimed): a finished run that hit a fatal error has exit code 1,
\* and exit code 0 means that no fatal error was hit.
C9_ExitCode ==
    Finished => /\ (fatal => exitCode = 1)
                /\ (exitCode = 0 => ~fatal)

\* --------------------------------------------- get_resilient_db_connection
\* what one db_pool.getconn() call does: it returns a connection, raises
\* psycopg2.OperationalError, or raises another exception (pool.PoolError)
GetconnOutcomes == {"conn", "OperationalError", "PoolError"}

\* stop=stop_after_attempt(7)
StopAfterAttempt == 7

\* mutant: one attempt more before giving up
ShouldStop_late(n) == n > StopAfterAttempt

\* stop_after_attempt(7): give up once the attempt number has reached 7
ShouldStop(n) == n >= StopAfterAttempt

\* mutant: every exception is retried
ShouldRetry_any(exc) == TRUE

\* retry=retry_if_exception_type(psycopg2.OperationalError)
ShouldRetry(exc) == exc = "OperationalError"

Min(a, b) == IF a < b THEN a ELSE b
Max(a, b) == IF a > b THEN a ELSE b

\* wait_exponential(multiplier=1, min=2, max=30); exp_base is tenacity's default
WaitMultiplier == 1
WaitMin == 2
WaitMax == 30
WaitExpBase == 2

\* wait_exponential.__call__(retry_state) of tenacity, n the number of the
\* attempt that just failed:
\* max(max(0, min), min(multiplier * exp_base ** (n - 1), max))
wait_exponential(n) ==
    Max(Max(0, WaitMin), Min(WaitMultiplier * WaitExpBase ^ (n - 1), WaitMax))

InitRetry ==
    /\ outcomes \in [1..MaxCalls -> GetconnOutcomes]
    /\ attempt_number = 1
    /\ retry_pc = "call"
    /\ raised = "none"
    /\ waits = <<>>

IdleLoad ==
    /\ features = <<>>
    /\ loader = 1
    /\ run = 0
    /\ query_date = 1
    /\ pc = "off"
    /\ idx = 1
    /\ nameIdx = 1
    /\ entity_id = 0
    /\ entities = {}
    /\ names = {}
    /\ txEntities = {}
    /\ txNames = {}
    /\ entity_seq = 0
    /\ name_seq = 0
    /\ checkedOut = 0
    /\ inserted_count = 0
    /\ connectCalls = 0
    /\ exitCode = -1
    /\ fatal = FALSE
    /\ log = {}
    /\ added = {}
    /\ rowsAfter = <<>>
    /\ commits = {}
    /\ failures = 0

\* one attempt: conn = db_pool.getconn() under the retry decorator
Attempt ==
    /\ retry_pc = "call"
    /\ attempt_number <= MaxCalls
    /\ LET o == outcomes[attempt_number] IN
       IF o = "conn"
       THEN retry_pc' = "returned" /\ raised' = raised
       ELSE IF ~ShouldRetry(o)
       THEN retry_pc' = "raised" /\ raised' = o      \* the exception itself
       ELSE IF ShouldStop(attempt_number)
       THEN retry_pc' = "raised" /\ raised' = "RetryError"
       ELSE retry_pc' = "sleep" /\ raised' = raised  \* before_sleep, wait
    /\ waits' = IF retry_pc' = "sleep"
                THEN Append(waits, wait_exponential(attempt_number))
                ELSE waits
    /\ UNCHANGED <<outcomes, attempt_number, loadVars, filterVars, decodeVars,
                   classifyVars,
                   batchVars, extractVars>>

\* the wait is over: the next attempt
Sleep ==
    /\ retry_pc = "sleep"
    /\ attempt_number' = attempt_number + 1
    /\ retry_pc' = "call"
    /\ UNCHANGED <<outcomes, raised, waits, loadVars, filterVars, decodeVars,
                   classifyVars,
                   batchVars, extractVars>>

NextRetry == Attempt \/ Sleep

\* only the retried call runs
RetryInit ==
    InitRetry /\ IdleLoad /\ IdleFilter /\ IdleDecode /\ IdleClassify /\ IdleBatch
    /\ IdleExtract

SpecRetry == RetryInit /\ [][NextRetry]_vars

\* the attempt at which the call ends for the given outcomes: the first
\* attempt that is not a transient failure, and the 7th at the latest
RECURSIVE LastAttempt(_, _)
LastAttempt(os, n) ==
    IF n >= 7 \/ os[n] # "OperationalError" THEN n ELSE LastAttempt(os, n + 1)

\* C6: get_resilient_db_connection makes at most 7 attempts; when all fail
\* with OperationalError it raises RetryError after exactly 7; another
\* exception propagates from the attempt that raised it; the first success
\* returns the connection; no attempt follows any of these.
C6_RetryPolicy ==
    /\ attempt_number <= 7
    /\ attempt_number <= LastAttempt(outcomes, 1)
    /\ retry_pc \in {"returned", "raised"} =>
        /\ attempt_number = LastAttempt(outcomes, 1)
        /\ ~ENABLED NextRetry
        /\ (retry_pc = "returned") = (outcomes[attempt_number] = "conn")
        /\ (raised = "RetryError") =
              (attempt_number = 7 /\ \A i \in 1..7 : outcomes[i] = "OperationalError")
        /\ (raised = "PoolError") = (outcomes[attempt_number] = "PoolError")

\* C6 witness: all 7 attempts failed with OperationalError and RetryError was
\* raised.
C6_Witness ==
    /\ retry_pc = "raised"
    /\ raised = "RetryError"
    /\ attempt_number = 7

\* ------------------------------------------------------- MariupolExtractor
\* MARIUPOL_BBOX, in hundredths of a degree
MARIUPOL_BBOX ==
    [min_lon |-> 3729, min_lat |-> 4700, max_lon |-> 3776, max_lat |-> 4723]

UpperCase == <<"A", "B", "C", "D", "E", "F", "G", "H", "I", "J", "K", "L", "M",
               "N", "O", "P", "Q", "R", "S", "T", "U", "V", "W", "X", "Y", "Z",
               "CY_A", "CY_D", "CY_M", "uk_I", "uk_YI", "uk_YE", "uk_G",
               "ru_Y", "ru_E">>
LowerCase == <<"a", "b", "c", "d", "e", "f", "g", "h", "i", "j", "k", "l", "m",
               "n", "o", "p", "q", "r", "s", "t", "u", "v", "w", "x", "y", "z",
               "cy_a", "cy_d", "cy_m", "uk_i", "uk_yi", "uk_ye", "uk_g",
               "ru_y", "ru_e">>

LowerChar(c) ==
    IF \E i \in 1..Len(UpperCase) : UpperCase[i] = c
    THEN LowerCase[CHOOSE i \in 1..Len(UpperCase) : UpperCase[i] = c]
    ELSE c

\* str.lower()
Lower(value) == [i \in 1..Len(value) |-> LowerChar(value[i])]

\* `keyword in value`: keyword is a substring of value
Contains(value, keyword) ==
    \E i \in 0..(Len(value) - Len(keyword)) :
        SubSeq(value, i + 1, i + Len(keyword)) = keyword

mariupol_keywords ==
    { <<"m", "a", "r", "i", "u", "p", "o", "l">>,
      <<"cy_m", "cy_a", "cy_r", "uk_i", "cy_u", "cy_p", "cy_o", "cy_l", "cy_soft">>,
      <<"cy_m", "cy_a", "cy_r", "cy_i", "cy_u", "cy_p", "cy_o", "cy_l", "cy_soft">>,
      <<"a", "z", "o", "v">>,
      <<"cy_a", "cy_z", "cy_o", "cy_v">>,
      <<"cy_a", "cy_z", "cy_o", "cy_v", "cy_s", "cy_soft", "cy_k", "cy_i", "cy_j">>,
      <<"d", "o", "n", "e", "t", "s", "k">>,
      <<"cy_d", "cy_o", "cy_n", "cy_e", "cy_ts", "cy_soft", "cy_k">>,
      <<"cy_d", "cy_o", "cy_n", "cy_e", "cy_ts", "cy_k", "cy_a", "cy_ya">> }

vMainSt == <<"M", "a", "i", "n", "S", "t">>
vPrimary == <<"p", "r", "i", "m", "a", "r", "y">>
vMariupol == <<"M", "a", "r", "i", "u", "p", "o", "l">>
vAzovstal ==
    <<"CY_A", "cy_z", "cy_o", "cy_v", "cy_s", "cy_t", "cy_a", "cy_l", "cy_soft">>

\* the tags of the primitives of the input file
TagChoices ==
    { <<>>,
      <<Tag("highway", vPrimary), Tag("name", vMainSt)>>,
      <<Tag("name", vMainSt), Tag("is_in", vMariupol)>>,
      <<Tag("name", vAzovstal)>>,
      <<Tag("azov", vMainSt)>> }

\* <<lon, lat>> of two opposite corners of the box and of the nearest point
\* beyond each of its four edges
Positions ==
    { <<MARIUPOL_BBOX.min_lon, MARIUPOL_BBOX.min_lat>>,
      <<MARIUPOL_BBOX.max_lon, MARIUPOL_BBOX.max_lat>>,
      <<MARIUPOL_BBOX.min_lon - 1, MARIUPOL_BBOX.min_lat>>,
      <<MARIUPOL_BBOX.max_lon + 1, MARIUPOL_BBOX.max_lat>>,
      <<MARIUPOL_BBOX.min_lon, MARIUPOL_BBOX.min_lat - 1>>,
      <<MARIUPOL_BBOX.max_lon, MARIUPOL_BBOX.max_lat + 1>> }

Times == 1..MaxTime

\* An OSM primitive as the handler callbacks receive it. lon and lat are where
\* the primitive lies: the location of a node, the position of the nodes of a
\* way, of the members of a relation. Only a node object carries it, as
\* obj.location, and valid tells whether that location is set.
Primitives(kind) ==
    { [ kind |-> kind, lon |-> p[1], lat |-> p[2], valid |-> v,
        timestamp |-> t, tags |-> tags ] :
      p \in Positions,
      v \in IF kind = "node" THEN BOOLEAN ELSE {TRUE},
      t \in Times,
      tags \in TagChoices }

\* hasattr(obj, 'location'): of Node, Way and Relation only Node has it
HasLocation(obj) == obj.kind = "node"

_in_bbox(obj) ==
    IF HasLocation(obj) /\ obj.valid
    THEN /\ MARIUPOL_BBOX.min_lon <= obj.lon /\ obj.lon <= MARIUPOL_BBOX.max_lon
         /\ MARIUPOL_BBOX.min_lat <= obj.lat /\ obj.lat <= MARIUPOL_BBOX.max_lat
    ELSE FALSE

\* mutant: the comparison is strict
_check_timestamp_strict(target, obj) ==
    IF target = NULL THEN TRUE ELSE obj.timestamp < target[1]

\* target is <<>> for None, <<t>> for the datetime t
_check_timestamp(target, obj) ==
    IF target = NULL THEN TRUE ELSE obj.timestamp <= target[1]

\* mutant: the tag value is not lower-cased before the comparison
_has_mariupol_tags_cs(obj) ==
    \E i \in 1..Len(obj.tags) :
        \E keyword \in mariupol_keywords : Contains(obj.tags[i].v, keyword)

_has_mariupol_tags(obj) ==
    \E i \in 1..Len(obj.tags) :
        \E keyword \in mariupol_keywords : Contains(Lower(obj.tags[i].v), keyword)

InitFilter ==
    /\ target_timestamp \in {NULL} \cup { <<t>> : t \in Times }
    /\ prim = NULL
    /\ accepted = FALSE
    /\ written = <<>>
    /\ processed_count = 0
    /\ extracted_count = 0

\* writer.add_node / add_way / add_relation and extracted_count += 1 when the
\* test of the callback holds
Handled(obj, keep) ==
    /\ prim' = obj
    /\ accepted' = keep
    /\ written' = IF keep THEN Append(written, processed_count + 1) ELSE written
    /\ extracted_count' = IF keep THEN extracted_count + 1 ELSE extracted_count

node(n) ==
    /\ processed_count < MaxPrims
    /\ processed_count' = processed_count + 1
    /\ LET keep == /\ _check_timestamp(target_timestamp, n)
                   /\ (_in_bbox(n) \/ _has_mariupol_tags(n))
       IN Handled(n, keep)
    /\ UNCHANGED <<target_timestamp, loadVars, retryVars, decodeVars, classifyVars,
                   batchVars, extractVars>>

way(w) ==
    /\ processed_count < MaxPrims
    /\ processed_count' = processed_count + 1
    /\ LET keep == /\ _check_timestamp(target_timestamp, w)
                   /\ _has_mariupol_tags(w)
       IN Handled(w, keep)
    /\ UNCHANGED <<target_timestamp, loadVars, retryVars, decodeVars, classifyVars,
                   batchVars, extractVars>>

relation(r) ==
    /\ processed_count < MaxPrims
    /\ processed_count' = processed_count + 1
    /\ LET keep == /\ _check_timestamp(target_timestamp, r)
                   /\ _has_mariupol_tags(r)
       IN Handled(r, keep)
    /\ UNCHANGED <<target_timestamp, loadVars, retryVars, decodeVars, classifyVars,
                   batchVars, extractVars>>

NextFilter ==
    \/ \E n \in Primitives("node") : node(n)
    \/ \E w \in Primitives("way") : way(w)
    \/ \E r \in Primitives("relation") : relation(r)

\* only the extractor runs
FilterInit ==
    IdleLoad /\ IdleRetry /\ InitFilter /\ IdleDecode /\ IdleClassify /\ IdleBatch
    /\ IdleExtract

SpecFilter == FilterInit /\ [][NextFilter]_vars

\* the primitive lies within the bounding box
LiesInBox(obj) ==
    /\ obj.valid
    /\ MARIUPOL_BBOX.min_lon <= obj.lon /\ obj.lon <= MARIUPOL_BBOX.max_lon
    /\ MARIUPOL_BBOX.min_lat <= obj.lat /\ obj.lat <= MARIUPOL_BBOX.max_lat

\* the primitive lies outside the bounding box
LiesOutsideBox(obj) ==
    \/ obj.lon < MARIUPOL_BBOX.min_lon \/ obj.lon > MARIUPOL_BBOX.max_lon
    \/ obj.lat < MARIUPOL_BBOX.min_lat \/ obj.lat > MARIUPOL_BBOX.max_lat

\* C10: with a cutoff configured, the last primitive handled, of whatever
\* kind, was accepted if it lies within the bounding box and is timestamped at
\* or before the cutoff, and was rejected if it lies outside the bounding box
\* and is timestamped after the cutoff.
C10_FilterByBoxAndCutoff ==
    (processed_count > 0 /\ target_timestamp # NULL) =>
        /\ (LiesInBox(prim) /\ prim.timestamp <= target_timestamp[1]) => accepted
        /\ (LiesOutsideBox(prim) /\ prim.timestamp > target_timestamp[1]) => ~accepted

\* C11 (as claimed): a node whose coordinate is outside the bounding box is
\* not written by the extractor, whatever its tags are.
C11_OutsidePointRejected ==
    (processed_count > 0 /\ prim.kind = "node" /\ LiesOutsideBox(prim))
        => ~accepted

\* the temporal test as stated: no cutoff, or timestamp <= cutoff
PassesCutoff(obj) ==
    target_timestamp = NULL \/ obj.timestamp <= target_timestamp[1]

\* C12: nothing is written that fails the temporal test, so with a cutoff
\* nothing timestamped after it is written; and of the primitives that meet
\* the other condition of their callback (a keyword tag), exactly those are
\* written whose timestamp is <= the cutoff, all of them when there is no
\* cutoff.
C12_TemporalTest ==
    processed_count > 0 =>
        /\ accepted => PassesCutoff(prim)
        /\ _has_mariupol_tags(prim) => (accepted <=> PassesCutoff(prim))

\* C12 witness: a primitive timestamped exactly at the cutoff was written,
\* the second of the stream, after a first one that was not written.
C12_Witness ==
    /\ processed_count = 2
    /\ target_timestamp # NULL
    /\ prim.timestamp = target_timestamp[1]
    /\ accepted
    /\ written = <<2>>

\* keyword occurs in value when letter case is ignored
ContainsIgnoringCase(value, keyword) ==
    \E i \in 0..(Len(value) - Len(keyword)) :
        \A j \in 1..Len(keyword) :
            LowerChar(value[i + j]) = LowerChar(keyword[j])

\* C13: a relation that passes the temporal test is written exactly when one
\* of its tag values contains one of the keywords, letter case ignored; where
\* it lies and what its tag keys are makes no difference.
C13_RelationByKeyword ==
    (processed_count > 0 /\ prim.kind = "relation" /\ PassesCutoff(prim)) =>
        (accepted <=>
            \E i \in 1..Len(prim.tags) : \E keyword \in mariupol_keywords :
                ContainsIgnoringCase(prim.tags[i].v, keyword))

\* C13 witness: a relation outside the bounding box was written for a tag
\* value that matches a keyword only when case is ignored.
C13_Witness ==
    /\ processed_count > 0
    /\ prim.kind = "relation"
    /\ LiesOutsideBox(prim)
    /\ accepted
    /\ prim.tags = <<Tag("name", vAzovstal)>>

\* ------------------------------------ OSMDataLoader / OSMDataHandler: decode
\* tag values the handlers and the classification rules compare with
w_city == <<"c", "i", "t", "y">>
w_town == <<"t", "o", "w", "n">>
w_village == <<"v", "i", "l", "l", "a", "g", "e">>
w_hamlet == <<"h", "a", "m", "l", "e", "t">>
w_suburb == <<"s", "u", "b", "u", "r", "b">>
w_borough == <<"b", "o", "r", "o", "u", "g", "h">>
w_district == <<"d", "i", "s", "t", "r", "i", "c", "t">>
w_neighbourhood == <<"n", "e", "i", "g", "h", "b", "o", "u", "r", "h", "o", "o", "d">>
w_administrative == <<"a", "d", "m", "i", "n", "i", "s", "t", "r", "a", "t", "i", "v", "e">>
w_multipolygon == <<"m", "u", "l", "t", "i", "p", "o", "l", "y", "g", "o", "n">>
w_park == <<"p", "a", "r", "k">>
w_yes == <<"y", "e", "s">>
w_school == <<"s", "c", "h", "o", "o", "l">>
w_7 == <<"7">>
w_8 == <<"8">>
w_9 == <<"9">>
w_10 == <<"1", "0">>

\* MARIUPOL_BBOX of scripts/utils/config.py, "min_lat,min_lon,max_lat,max_lon",
\* in units of 1e-7 degree
target_bbox ==
    [min_lat |-> 470002828, min_lon |-> 372942822,
     max_lat |-> 472294948, max_lon |-> 377554739]

_is_within_bbox(lat, lon) ==
    /\ target_bbox.min_lat <= lat /\ lat <= target_bbox.max_lat
    /\ target_bbox.min_lon <= lon /\ lon <= target_bbox.max_lon

\* str.startswith('name'), over the tag keys that occur in the model
StartsWithName(k) ==
    k \in {"name", "name:uk", "name:ru", "name:en", "name:de", "name_1"}

\* k.startswith('name:') or k == 'name'
IsNameTag(k) == k = "name" \/ k \in {"name:uk", "name:ru", "name:en", "name:de"}

\* any(tag.startswith('name') for tag in tags)
Named(tags) == \E i \in 1..Len(tags) : StartsWithName(tags[i].k)

\* 'key' in tags
HasKey(tags, key) == \E i \in 1..Len(tags) : tags[i].k = key

\* tags['key'] (tags.get('key')): NULL when the key is absent
Get(tags, key) ==
    IF HasKey(tags, key)
    THEN tags[CHOOSE i \in 1..Len(tags) : tags[i].k = key].v
    ELSE NULL

IsNameTagOf(t) == IsNameTag(t.k)
IsPropertyOf(t) == ~StartsWithName(t.k)

\* the places a named node must have to become a feature
NodePlaces ==
    {w_city, w_town, w_village, w_hamlet, w_suburb, w_borough, w_district,
     w_neighbourhood}

\* _add_feature: the features list afterwards
_add_feature(feats, osm_id, osm_type, geometry, tags) ==
    LET name_tags == SelectSeq(tags, IsNameTagOf) IN
    IF name_tags = <<>> THEN feats
    ELSE Append(feats,
                [osm_id |-> osm_id, osm_type |-> osm_type,
                 name_tags |-> name_tags, geometry |-> geometry,
                 properties |-> SelectSeq(tags, IsPropertyOf)])

Point(lon, lat) == [type |-> "Point", coords |-> << <<lon, lat>> >>]
LineString(cs) == [type |-> "LineString", coords |-> cs]

\* self.nodes[id] = c
Put(cache, id, c) ==
    [i \in (DOMAIN cache) \cup {id} |-> IF i = id THEN c ELSE cache[i]]

\* mutant: a missing node id resolves to the corner of the bounding box
Lookup_default(cache, ref) ==
    IF ref \in DOMAIN cache THEN <<cache[ref]>>
    ELSE << <<target_bbox.min_lon, target_bbox.min_lat>> >>

\* `if node_ref.ref in self.nodes: coords.append(self.nodes[node_ref.ref])`:
\* <<coordinate>> when the id is in the cache, NULL when it is not
Lookup(cache, ref) ==
    IF ref \in DOMAIN cache THEN <<cache[ref]>> ELSE NULL

\* coords: the coordinates found, in the order of the node refs
RECURSIVE Compact(_)
Compact(rs) ==
    IF rs = <<>> THEN <<>>
    ELSE IF Head(rs) = NULL THEN Compact(Tail(rs))
    ELSE <<Head(rs)[1]>> \o Compact(Tail(rs))

\* mutant: one coordinate is enough
Retained_one(cs) == Len(cs) > 0

\* `if len(coords) > 1`
Retained(cs) == Len(cs) > 1

Abs(x) == IF x < 0 THEN -x ELSE x

\* length of the segment from a to b; the positions of the model that can be
\* in the cache lie on one parallel, where this is the Euclidean length
SegLen(a, b) == Abs(a[1] - b[1]) + Abs(a[2] - b[2])

\* over the segments k, k+1, ... of cs: the sum of the lengths, and the sums
\* of length * (offset of the segment's midpoint from cs[1]) * 2
RECURSIVE LineSums(_, _)
LineSums(cs, k) ==
    IF k >= Len(cs) THEN [len |-> 0, mx |-> 0, my |-> 0]
    ELSE LET rest == LineSums(cs, k + 1)
             l == SegLen(cs[k], cs[k + 1])
         IN [len |-> rest.len + l,
             mx |-> rest.mx + l * (cs[k][1] + cs[k + 1][1] - 2 * cs[1][1]),
             my |-> rest.my + l * (cs[k][2] + cs[k + 1][2] - 2 * cs[1][2])]

\* self._is_within_bbox(geom.centroid.y, geom.centroid.x) of LineString(cs):
\* the centroid is the length-weighted mean of the segment midpoints,
\* cs[1] + <<mx, my>> / (2 * len), and cs[1] itself when the line has no length
CentroidWithinBbox(cs) ==
    LET S == LineSums(cs, 1) IN
    IF S.len = 0 THEN _is_within_bbox(cs[1][2], cs[1][1])
    ELSE /\ (target_bbox.min_lat - cs[1][2]) * 2 * S.len <= S.my
         /\ S.my <= (target_bbox.max_lat - cs[1][2]) * 2 * S.len
         /\ (target_bbox.min_lon - cs[1][1]) * 2 * S.len <= S.mx
         /\ S.mx <= (target_bbox.max_lon - cs[1][1]) * 2 * S.len

\* center of the bounding box, the placeholder geometry of a relation
BboxCenter ==
    Point((target_bbox.min_lon + target_bbox.max_lon) \div 2,
          (target_bbox.min_lat + target_bbox.max_lat) \div 2)

\* <<lon, lat>>: two positions inside the bounding box, on one parallel, and
\* the nearest position beyond each of its four edges
DecodePositions ==
    { <<target_bbox.min_lon, target_bbox.min_lat>>,
      <<target_bbox.min_lon + 2, target_bbox.min_lat>>,
      <<target_bbox.min_lon - 1, target_bbox.min_lat>>,
      <<target_bbox.max_lon + 1, target_bbox.min_lat>>,
      <<target_bbox.min_lon, target_bbox.min_lat - 1>>,
      <<target_bbox.min_lon, target_bbox.max_lat + 1>> }

NodeIds == 1..MaxNodeId

\* the ids a way may refer to: the nodes of the input and one node that the
\* input does not hold
RefIds == 1..(MaxNodeId + 1)

\* the node versions of the input: n.id, n.location (valid or not), n.tags
DecodeNodes ==
    { [kind |-> "node", id |-> id, valid |-> TRUE, lon |-> p[1], lat |-> p[2],
       tags |-> tags] :
      id \in NodeIds, p \in DecodePositions,
      tags \in { <<>>, <<Tag("place", w_city), Tag("name", vFoo)>> } }
    \cup
    { [kind |-> "node", id |-> id, valid |-> FALSE, lon |-> 0, lat |-> 0,
       tags |-> <<>>] : id \in NodeIds }

\* the ways of the input: w.id, w.nodes (the refs), w.tags
DecodeWays ==
    { [kind |-> "way", id |-> 1, refs |-> refs, tags |-> tags] :
      refs \in UNION { [1..n -> RefIds] : n \in 0..MaxRefs },
      tags \in { <<Tag("highway", vPrimary), Tag("name", vMainSt)>>,
                 <<Tag("highway", vPrimary)>>,
                 <<Tag("highway", vPrimary), Tag("name_1", vMainSt)>> } }

\* the relations of the input: r.id, r.tags
DecodeRelations ==
    { [kind |-> "relation", id |-> 1, tags |-> tags] :
      tags \in { <<Tag("boundary", w_administrative), Tag("name", vFoo)>>,
                 <<Tag("type", w_multipolygon), Tag("name", vFoo)>>,
                 <<Tag("name", vFoo)>> } }

InitDecode ==
    /\ handler_class \in {"OSMDataLoader", "OSMDataHandler"}
    /\ decode_pc = "run"
    /\ stream_pos = 0
    /\ nodes = <<>>
    /\ handler_features = <<>>
    /\ decoded = NULL
    /\ resolved = <<>>
    /\ coords = <<>>
    /\ appended = FALSE
    /\ puts = {}
    /\ decodedIds = {}
    /\ latest = <<>>
    /\ processed_objects_count = 0
    /\ extracted_objects_count = 0

\* only OSMDataLoader keeps the two counters
Counted(n) == IF handler_class = "OSMDataLoader" THEN n + 1 ELSE n

\* node(n) of both handlers.  n.location.lat raises InvalidLocationError for a
\* location that is not set; nothing catches it in the callback, it leaves
\* apply_file and ends the decode pass.
OSMDataLoader_node(n) ==
    /\ decode_pc = "run"
    /\ stream_pos < MaxStream
    /\ stream_pos' = stream_pos + 1
    /\ decoded' = n
    /\ processed_objects_count' = Counted(processed_objects_count)
    /\ resolved' = <<>>
    /\ coords' = <<>>
    /\ IF ~n.valid
       THEN /\ decode_pc' = "aborted"
            /\ appended' = FALSE
            /\ UNCHANGED <<nodes, puts, decodedIds, latest, handler_features,
                           extracted_objects_count>>
       ELSE LET within == _is_within_bbox(n.lat, n.lon)
                wanted == /\ Named(n.tags)
                          /\ HasKey(n.tags, "place")
                          /\ Get(n.tags, "place") \in NodePlaces
                feats == IF wanted /\ within
                         THEN _add_feature(handler_features, n.id, "node",
                                           Point(n.lon, n.lat), n.tags)
                         ELSE handler_features
            IN /\ nodes' = IF within THEN Put(nodes, n.id, <<n.lon, n.lat>>) ELSE nodes
               /\ puts' = IF within THEN puts \cup {<<n.id, <<n.lon, n.lat>>>>} ELSE puts
               /\ decodedIds' = decodedIds \cup {n.id}
               /\ latest' = Put(latest, n.id, <<n.lon, n.lat>>)
               /\ handler_features' = feats
               /\ appended' = (feats # handler_features)
               /\ extracted_objects_count' =
                     IF wanted /\ within THEN Counted(extracted_objects_count)
                     ELSE extracted_objects_count
               /\ decode_pc' = decode_pc
    /\ UNCHANGED <<handler_class, loadVars, retryVars, filterVars, classifyVars,
                   batchVars, extractVars>>

\* way(w) of both handlers
OSMDataLoader_way(w) ==
    /\ decode_pc = "run"
    /\ stream_pos < MaxStream
    /\ stream_pos' = stream_pos + 1
    /\ decoded' = w
    /\ processed_objects_count' = Counted(processed_objects_count)
    /\ LET rs == IF Named(w.tags)
                 THEN [k \in 1..Len(w.refs) |-> Lookup(nodes, w.refs[k])]
                 ELSE <<>>
           cs == Compact(rs)
           keep == Named(w.tags) /\ Retained(cs) /\ CentroidWithinBbox(cs)
           feats == IF keep
                    THEN _add_feature(handler_features, w.id, "way",
                                      LineString(cs), w.tags)
                    ELSE handler_features
       IN /\ resolved' = rs
          /\ coords' = cs
          /\ handler_features' = feats
          /\ appended' = (feats # handler_features)
          /\ extracted_objects_count' =
                IF keep THEN Counted(extracted_objects_count)
                ELSE extracted_objects_count
    /\ UNCHANGED <<handler_class, decode_pc, nodes, puts, decodedIds, latest,
                   loadVars, retryVars, filterVars, classifyVars,
                   batchVars, extractVars>>

\* `r.nodes or r.ways or r.relations` of OSMDataLoader.relation: an osmium
\* Relation has members, tags and the object fields, and none of these three
\* attributes; the AttributeError is caught by the except clause of the callback
RelationHasMemberLists == FALSE

\* relation(r): OSMDataLoader tests the member lists, OSMDataHandler tests
\* _is_within_bbox_coords of the bounding box against itself, which holds
OSMDataLoader_relation(r) ==
    /\ decode_pc = "run"
    /\ stream_pos < MaxStream
    /\ stream_pos' = stream_pos + 1
    /\ decoded' = r
    /\ processed_objects_count' = Counted(processed_objects_count)
    /\ resolved' = <<>>
    /\ coords' = <<>>
    /\ LET wanted == /\ Named(r.tags)
                     /\ \/ HasKey(r.tags, "boundary")
                        \/ (HasKey(r.tags, "type") /\ Get(r.tags, "type") = w_multipolygon)
           keep == /\ wanted
                   /\ (handler_class = "OSMDataLoader" => RelationHasMemberLists)
           feats == IF keep
                    THEN _add_feature(handler_features, r.id, "relation",
                                      BboxCenter, r.tags)
                    ELSE handler_features
       IN /\ handler_features' = feats
          /\ appended' = (feats # handler_features)
          /\ extracted_objects_count' =
                IF keep THEN Counted(extracted_objects_count)
                ELSE extracted_objects_count
    /\ UNCHANGED <<handler_class, decode_pc, nodes, puts, decodedIds, latest,
                   loadVars, retryVars, filterVars, classifyVars,
                   batchVars, extractVars>>

NextDecode ==
    \/ \E n \in DecodeNodes : OSMDataLoader_node(n)
    \/ \E w \in DecodeWays : OSMDataLoader_way(w)
    \/ \E r \in DecodeRelations : OSMDataLoader_relation(r)

\* only a decode pass runs
DecodeInit ==
    IdleLoad /\ IdleRetry /\ IdleFilter /\ InitDecode /\ IdleClassify /\ IdleBatch
    /\ IdleExtract

SpecDecode == DecodeInit /\ [][NextDecode]_vars

\* a way callback was the last to run
AfterWay == stream_pos > 0 /\ decoded.kind = "way"

\* C14: at every point of the decode pass an id that no node record has put
\* into the cache does not resolve, and an id that resolves gives a coordinate
\* that was put for that id; the refs of a way resolve accordingly: a ref
\* whose id was not put before the way gets no coordinate, and a coordinate a
\* way receives was put for that ref's id by a node decoded before the way.
C14_CacheResolution ==
    /\ \A id \in RefIds :
          /\ (~\E p \in puts : p[1] = id) => Lookup(nodes, id) = NULL
          /\ Lookup(nodes, id) # NULL => <<id, Lookup(nodes, id)[1]>> \in puts
    /\ AfterWay =>
          \A k \in 1..Len(resolved) :
              /\ (~\E p \in puts : p[1] = decoded.refs[k]) => resolved[k] = NULL
              /\ resolved[k] # NULL =>
                    /\ <<decoded.refs[k], resolved[k][1]>> \in puts
                    /\ decoded.refs[k] \in decodedIds

\* C14 witness: a way got a coordinate for one ref, none for a ref whose node
\* was decoded outside the bounding box, and none for a ref never decoded.
C14_Witness ==
    /\ AfterWay
    /\ \E k \in 1..Len(resolved) : resolved[k] # NULL
    /\ \E k \in 1..Len(resolved) :
          resolved[k] = NULL /\ decoded.refs[k] \in decodedIds
    /\ \E k \in 1..Len(resolved) :
          resolved[k] = NULL /\ decoded.refs[k] \notin decodedIds

\* positions of the refs of the last way that resolved
ResolvedAt == {k \in 1..Len(resolved) : resolved[k] # NULL}

\* C15: after a way callback the decode pass is still running; coords holds
\* the coordinates of the refs that resolved, in the order of the refs; the
\* way was appended as a feature only if it is named and at least 2
\* coordinates remain, with these coordinates as its line; with 0 or 1
\* coordinate nothing was appended.
C15_UnresolvedRefsDropped ==
    AfterWay =>
        /\ decode_pc = "run"
        /\ Named(decoded.tags) => Len(resolved) = Len(decoded.refs)
        /\ Len(coords) = Cardinality(ResolvedAt)
        /\ \A k \in ResolvedAt :
              coords[Cardinality({j \in ResolvedAt : j <= k})] = resolved[k][1]
        /\ appended =>
              /\ Named(decoded.tags)
              /\ Len(coords) >= 2
              /\ handler_features[Len(handler_features)].geometry = LineString(coords)
        /\ Len(coords) <= 1 => ~appended

\* C15 witness: a way with three refs, the middle one unresolved, became a
\* feature with the two remaining coordinates.
C15_Witness ==
    /\ AfterWay
    /\ Len(resolved) = 3
    /\ resolved[2] = NULL
    /\ Len(coords) = 2
    /\ coords[1] # coords[2]
    /\ appended

\* ------------------------------------------------------------ classification
\* The classification step of the three loaders, run on one row of the
\* GeoDataFrame built from the handler's features.

w_primary == <<"p", "r", "i", "m", "a", "r", "y">>
w_river == <<"r", "i", "v", "e", "r">>
w_rail == <<"r", "a", "i", "l">>

\* the geom_type of the geometry a handler gives a feature: Point for a node,
\* LineString for a way, the placeholder Point for a relation
HandlerGeomType(osm_type) ==
    IF osm_type = "way" THEN "LineString" ELSE "Point"

\* gdf['geometry'].buffer(0): the buffer of distance 0 of a Point or of a
\* LineString is the empty Polygon (valid, geom_type 'Polygon'); a Polygon
\* stays a Polygon
Buffer0(geom_type) ==
    IF geom_type \in {"Point", "LineString", "Polygon"} THEN "Polygon"
    ELSE "MultiPolygon"

\* the properties of the rows: the tags of a feature whose key does not start
\* with 'name'
PropertyChoices ==
    { <<>>,
      <<Tag("highway", w_primary)>>,
      <<Tag("highway", w_primary), Tag("waterway", w_river)>>,
      <<Tag("waterway", w_river), Tag("footway", w_yes)>>,
      <<Tag("waterway", w_river)>>,
      <<Tag("footway", w_yes)>>,
      <<Tag("path", w_yes)>>,
      <<Tag("railway", w_rail)>>,
      <<Tag("admin_level", w_8), Tag("boundary", w_administrative)>>,
      <<Tag("admin_level", w_7), Tag("boundary", w_administrative)>>,
      <<Tag("admin_level", w_10)>>,
      <<Tag("boundary", w_administrative), Tag("type", w_multipolygon)>>,
      <<Tag("type", w_multipolygon), Tag("landuse", w_park), Tag("building", w_yes)>>,
      <<Tag("type", w_multipolygon), Tag("building", w_yes)>>,
      <<Tag("type", w_multipolygon), Tag("amenity", w_school)>>,
      <<Tag("type", w_multipolygon)>>,
      <<Tag("landuse", w_park)>>,
      <<Tag("place", w_city), Tag("building", w_yes)>>,
      <<Tag("building", w_yes), Tag("amenity", w_school)>>,
      <<Tag("amenity", w_school), Tag("place", w_town)>>,
      <<Tag("shop", w_yes)>>,
      <<Tag("leisure", w_park)>>,
      <<Tag("place", w_town)>>,
      <<Tag("place", w_village), Tag("building", w_yes)>>,
      <<Tag("place", w_village), Tag("building", w_yes), Tag("amenity", w_school)>>,
      <<Tag("place", w_suburb), Tag("shop", w_yes)>>,
      <<Tag("place", w_district)>> }

\* the rows of gdf.iterrows(): osm_type, properties and the geometry as the
\* handler built it
FeatureRows ==
    { [osm_type |-> t, properties |-> ps, geom_type |-> HandlerGeomType(t)] :
      t \in {"node", "way", "relation"}, ps \in PropertyChoices }

\* mutant: the amenity/shop/leisure rule of a node is tried before the
\* building rule
TagRules_amenityFirst(osm_type, properties) ==
    IF osm_type = "way"
    THEN IF HasKey(properties, "highway") THEN "street"
         ELSE IF HasKey(properties, "waterway") THEN "waterway"
         ELSE IF HasKey(properties, "footway") \/ HasKey(properties, "path") THEN "path"
         ELSE "unknown"
    ELSE IF osm_type = "relation"
    THEN IF HasKey(properties, "admin_level")
            /\ Get(properties, "admin_level") \in {w_8, w_9, w_10} THEN "district"
         ELSE IF HasKey(properties, "boundary")
                 /\ Get(properties, "boundary") = w_administrative THEN "region"
         ELSE IF Get(properties, "type") = w_multipolygon
         THEN IF HasKey(properties, "landuse")
                 /\ Get(properties, "landuse") = w_park THEN "park"
              ELSE IF HasKey(properties, "building") \/ HasKey(properties, "amenity")
              THEN "building"
              ELSE "area"
         ELSE "unknown"
    ELSE IF osm_type = "node"
    THEN IF HasKey(properties, "place") /\ Get(properties, "place") = w_city THEN "city"
         ELSE IF HasKey(properties, "amenity") \/ HasKey(properties, "shop")
                 \/ HasKey(properties, "leisure") THEN "point_of_interest"
         ELSE IF HasKey(properties, "building") THEN "building"
         ELSE IF HasKey(properties, "place")
                 /\ Get(properties, "place") \in
                       {w_town, w_village, w_hamlet, w_suburb, w_borough, w_neighbourhood}
         THEN "district"
         ELSE "unknown"
    ELSE "unknown"

\* the tag rules of loader 2 and of the PBF importer (the same text in both):
\* mapped_entity_type after the if/elif chain on row['osm_type']
TagRules(osm_type, properties) ==
    IF osm_type = "way"
    THEN IF HasKey(properties, "highway") THEN "street"
         ELSE IF HasKey(properties, "waterway") THEN "waterway"
         ELSE IF HasKey(properties, "footway") \/ HasKey(properties, "path") THEN "path"
         ELSE "unknown"
    ELSE IF osm_type = "relation"
    THEN IF HasKey(properties, "admin_level")
            /\ Get(properties, "admin_level") \in {w_8, w_9, w_10} THEN "district"
         ELSE IF HasKey(properties, "boundary")
                 /\ Get(properties, "boundary") = w_administrative THEN "region"
         ELSE IF Get(properties, "type") = w_multipolygon
         THEN IF HasKey(properties, "landuse")
                 /\ Get(properties, "landuse") = w_park THEN "park"
              ELSE IF HasKey(properties, "building") \/ HasKey(properties, "amenity")
              THEN "building"
              ELSE "area"
         ELSE "unknown"
    ELSE IF osm_type = "node"
    THEN IF HasKey(properties, "place") /\ Get(properties, "place") = w_city THEN "city"
         ELSE IF HasKey(properties, "building") THEN "building"
         ELSE IF HasKey(properties, "amenity") \/ HasKey(properties, "shop")
                 \/ HasKey(properties, "leisure") THEN "point_of_interest"
         ELSE IF HasKey(properties, "place")
                 /\ Get(properties, "place") \in
                       {w_town, w_village, w_hamlet, w_suburb, w_borough, w_neighbourhood}
         THEN "district"
         ELSE "unknown"
    ELSE "unknown"

\* if mapped_entity_type == 'unknown': the default of row['geometry'].geom_type
GeometryDefault(mapped, geom_type) ==
    IF mapped # "unknown" THEN mapped
    ELSE IF geom_type = "Point" THEN "point_of_interest"
    ELSE IF geom_type \in {"LineString", "MultiLineString"} THEN "path"
    ELSE IF geom_type \in {"Polygon", "MultiPolygon"} THEN "area"
    ELSE "unknown"

\* self.valid_db_entity_types of loader 2: the type codes of the store, here
\* the list get_valid_entity_types falls back to
valid_db_entity_types ==
    {"region", "district", "street", "square", "park", "building", "city",
     "point_of_interest", "area", "path", "waterway", "unknown"}

\* valid_predefined_types of the PBF importer
valid_predefined_types ==
    {"region", "district", "street", "square", "park", "building", "city"}

\* if mapped_entity_type not in <valid>: mapped_entity_type = 'point_of_interest'
Validated(mapped, valid) ==
    IF mapped \notin valid THEN "point_of_interest" ELSE mapped

\* the values mapped_entity_type takes for a row: after the tag rules, after
\* the geometry default (on the geometry buffer(0) left) and as inserted
Classified(row, valid) ==
    LET rules == TagRules(row.osm_type, row.properties)
        geometry == GeometryDefault(rules, Buffer0(row.geom_type))
    IN [rules |-> rules, geometry |-> geometry, valid |-> Validated(geometry, valid)]

\* the names bound in the module src/process_osm_data.py: its imports, its
\* assignments and its def and class statements
ModuleNames1 ==
    {"sys", "Path", "osm", "gpd", "Point", "LineString", "Dict", "Any", "List",
     "click", "logging", "tqdm", "retry", "stop_after_attempt",
     "wait_exponential", "retry_if_exception_type", "psycopg2", "pool",
     "DictCursor", "setup_logging", "MARIUPOL_BBOX", "logger",
     "get_resilient_db_connection", "OSMDataHandler", "DataLoader", "main"}

\* the rows a loader can be given: the handler of loader 1 keeps every named
\* node, way and relation; OSMDataLoader and OSMDataHandler keep a node whose
\* place is in the list of node(), a way, and a relation with boundary or
\* type=multipolygon, which OSMDataLoader then never appends
Extracted(which, row) ==
    \/ which = 1
    \/ row.osm_type = "way"
    \/ /\ row.osm_type = "node"
       /\ HasKey(row.properties, "place")
       /\ Get(row.properties, "place") \in NodePlaces
    \/ /\ row.osm_type = "relation"
       /\ \/ HasKey(row.properties, "boundary")
          \/ Get(row.properties, "type") = w_multipolygon
       /\ (which = 2 => RelationHasMemberLists)

InitClassify ==
    /\ feature_row \in FeatureRows
    /\ classify_pc = "start"
    /\ classifier = 0
    /\ mapped_entity_type = NULL

\* loader 1: mapped_entity_type = get_entity_type(properties, geom_type).
\* The name is bound nowhere in the module, the call raises NameError, and the
\* except clause of the loop logs "Skipping OSM ID ..." and continues.
Classify1 ==
    /\ classify_pc = "start"
    /\ Extracted(1, feature_row)
    /\ "get_entity_type" \notin ModuleNames1
    /\ classifier' = 1
    /\ classify_pc' = "skipped"
    /\ mapped_entity_type' = NULL
    /\ UNCHANGED <<feature_row, loadVars, retryVars, filterVars, decodeVars,
                   batchVars, extractVars>>

\* loader 2: tag rules, geometry default, check against valid_db_entity_types
Classify2 ==
    /\ classify_pc = "start"
    /\ Extracted(2, feature_row)
    /\ classifier' = 2
    /\ classify_pc' = "inserted"
    /\ mapped_entity_type' = Classified(feature_row, valid_db_entity_types)
    /\ UNCHANGED <<feature_row, loadVars, retryVars, filterVars, decodeVars,
                   batchVars, extractVars>>

\* PBF importer: tag rules, geometry default, check against
\* valid_predefined_types
ClassifyPbf ==
    /\ classify_pc = "start"
    /\ Extracted(3, feature_row)
    /\ classifier' = 3
    /\ classify_pc' = "inserted"
    /\ mapped_entity_type' = Classified(feature_row, valid_predefined_types)
    /\ UNCHANGED <<feature_row, loadVars, retryVars, filterVars, decodeVars,
                   batchVars, extractVars>>

NextClassify == Classify1 \/ Classify2 \/ ClassifyPbf

\* only a classification runs
ClassifyInit ==
    IdleLoad /\ IdleRetry /\ IdleFilter /\ IdleDecode /\ InitClassify /\ IdleBatch
    /\ IdleExtract

SpecClassify == ClassifyInit /\ [][NextClassify]_vars

\* C16 (as claimed): in every loader the classification step of a row ends
\* without an error and with one entity type of the taxonomy; no row is
\* skipped at this step.
C16_ClassificationTotal ==
    classify_pc # "start" =>
        /\ classify_pc = "inserted"
        /\ mapped_entity_type.valid \in valid_db_entity_types

Rules == mapped_entity_type.rules
Props == feature_row.properties
RuleTableRan == classify_pc = "inserted" /\ classifier \in {2, 3}

\* C17: after the tag rules of loader 2 and of the PBF importer the type is
\* that of the earliest rule of the primitive kind that the properties
\* satisfy: a later rule gives the type only when no earlier rule holds.
C17_FirstMatchWins ==
    RuleTableRan =>
        /\ feature_row.osm_type = "way" =>
              /\ HasKey(Props, "highway") => Rules = "street"
              /\ HasKey(Props, "waterway") /\ ~HasKey(Props, "highway") =>
                    Rules = "waterway"
              /\ (HasKey(Props, "footway") \/ HasKey(Props, "path"))
                    /\ ~HasKey(Props, "highway") /\ ~HasKey(Props, "waterway") =>
                    Rules = "path"
        /\ feature_row.osm_type = "relation" =>
              LET level == Get(Props, "admin_level") \in {w_8, w_9, w_10}
                  admin == Get(Props, "boundary") = w_administrative
                  multi == Get(Props, "type") = w_multipolygon
                  park == Get(Props, "landuse") = w_park
              IN /\ level => Rules = "district"
                 /\ admin /\ ~level => Rules = "region"
                 /\ multi /\ ~level /\ ~admin =>
                       /\ park => Rules = "park"
                       /\ ~park /\ (HasKey(Props, "building") \/ HasKey(Props, "amenity")) =>
                             Rules = "building"
                       /\ ~park /\ ~HasKey(Props, "building") /\ ~HasKey(Props, "amenity") =>
                             Rules = "area"
        /\ feature_row.osm_type = "node" =>
              LET city == Get(Props, "place") = w_city
                  poi == \/ HasKey(Props, "amenity")
                         \/ HasKey(Props, "shop")
                         \/ HasKey(Props, "leisure")
                  town == Get(Props, "place") \in
                             {w_town, w_village, w_hamlet, w_suburb, w_borough,
                              w_neighbourhood}
              IN /\ city => Rules = "city"
                 /\ HasKey(Props, "building") /\ ~city => Rules = "building"
                 /\ poi /\ ~city /\ ~HasKey(Props, "building") =>
                       Rules = "point_of_interest"
                 /\ town /\ ~poi /\ ~HasKey(Props, "building") => Rules = "district"

\* C17 witness: loader 2 classified a node that has both building and amenity
\* as a building, and stored it as one.
C17_Witness ==
    /\ RuleTableRan
    /\ classifier = 2
    /\ feature_row.osm_type = "node"
    /\ HasKey(Props, "building")
    /\ HasKey(Props, "amenity")
    /\ Rules = "building"
    /\ mapped_entity_type.valid = "building"

\* the default the claim gives the geometry kind of a feature
KindDefault(geom_type) ==
    IF geom_type = "Point" THEN "point_of_interest"
    ELSE IF geom_type = "LineString" THEN "path"
    ELSE "area"

\* C18 (as claimed): a row that no tag rule matches is inserted with the
\* default of its geometry kind: a point as point_of_interest, a line as path,
\* an area as area.
C18_GeometryDefault ==
    RuleTableRan /\ Rules = "unknown" =>
        mapped_entity_type.valid = KindDefault(feature_row.geom_type)

\* ------------------------------------------------- more claims on the loads
\* the language and script the claim gives a name tag key; loader 1 sets no
\* script_code, so only the language of its rows is compared
KeyLanguage(key) ==
    IF key \in {"name", "name:uk"} THEN <<"ukr", "Cyrl">>
    ELSE IF key = "name:ru" THEN <<"rus", "Cyrl">>
    ELSE IF key = "name:en" THEN <<"eng", "Latn">>
    ELSE <<"und", "Latn">>

\* C19 (as claimed): every Name row a load writes has the language (and, in
\* loader 2, the script) that the key of its name tag determines; the plain
\* key name gives ukr and Cyrl whatever the value.
C19_LanguageByKey ==
    [][ \A n \in (names' \cup txNames') \ (names \cup txNames) :
            LET key == features[idx][nameIdx].k IN
            /\ n.language_code = KeyLanguage(key)[1]
            /\ loader = 2 => n.script_code = KeyLanguage(key)[2] ]_vars

\* the Name rows of the store that the entity of a log entry owns
RowsOf(e) == {r \in AllNames : r.entity_id = e.entity_id}

\* C20 (as claimed): when nothing failed, the entity of every imported feature
\* owns as many Name rows as the feature has name tags with a non-blank value.
C20_OneRowPerNonBlankTag ==
    failures = 0 =>
        \A e \in log :
            e.ok => Cardinality(RowsOf(e)) = NonBlankTags(features[e.osm_id])

\* C27 (as claimed): after a load has finished every Entity row of the store
\* owns at least one Name row.
C27_EveryEntityNamed ==
    Finished => \A e \in entities : \E n \in names : n.entity_id = e.entity_id

\* the number of Name rows the run that just finished added to the store
RowsAddedByRun ==
    rowsAfter[run] - (IF run = 1 THEN 0 ELSE rowsAfter[run - 1])

\* C28 (as claimed): the inserted count loader 2 reports at the end of a load
\* is the number of Name rows that load added to the store.
C28_InsertedCountIsRowsAdded ==
    (Finished /\ loader = 2) => inserted_count = RowsAddedByRun

\* ------------------------------------------------ more claims on the decode
\* C26 (as claimed): after any prefix of the decode pass every node id of the
\* cache maps to the coordinate of the version of that node decoded last,
\* whether that version lies inside or outside the bounding box.
C26_CacheHoldsLatestVersion ==
    \A id \in DOMAIN nodes : nodes[id] = latest[id]

\* ------------------------------------------------- more claims on the retry
\* C23 (as claimed): when all 7 attempts of get_resilient_db_connection fail,
\* the waits before attempts 2 to 7 were 2, 4, 8, 16, 30 and 30 seconds.
C23_BackoffWaits ==
    (retry_pc = "raised" /\ raised = "RetryError") =>
        waits = <<2, 4, 8, 16, 30, 30>>

\* ---------------------------------------- more claims on the classification
\* the list the loader of the last classification validates against
ValidList ==
    IF classifier = 2 THEN valid_db_entity_types ELSE valid_predefined_types

\* C25 (as claimed): the entity type a loader inserts is a member of the list
\* the loader validates against, also when it is the replacement of a type
\* outside that list.
C25_InsertedTypeIsValid ==
    classify_pc = "inserted" => mapped_entity_type.valid \in ValidList

\* ------------------------------------------------------- OSMDatabaseLoader
\* load_osm_file of analyze_mariupol_toponyms.py: the raw load of a file into
\* osm_data.nodes, osm_data.ways and osm_data.relations, in batches.

\* self.batch_size, 1000 in the source, scaled down
batch_size == 2
MaxFile == 4
MaxRawId == 2
MaxVersion == 2
MaxRawLoads == 2

\* the records of a file: id and version stand for the fields a callback
\* copies; has_refs tells whether the node_refs of a way is a non-empty list
RawRecords ==
    { [kind |-> "node", id |-> i, version |-> v, has_refs |-> FALSE] :
      i \in 1..MaxRawId, v \in 1..MaxVersion }
    \cup
    { [kind |-> "way", id |-> 1, version |-> v, has_refs |-> h] :
      v \in 1..MaxVersion, h \in BOOLEAN }
    \cup
    { [kind |-> "relation", id |-> 1, version |-> v, has_refs |-> FALSE] :
      v \in 1..MaxVersion }

KindOrder(k) == IF k = "node" THEN 1 ELSE IF k = "way" THEN 2 ELSE 3

\* the order of an OSM file: nodes, ways, relations; by id; by version
Before(a, b) ==
    \/ KindOrder(a.kind) < KindOrder(b.kind)
    \/ a.kind = b.kind /\ a.id < b.id
    \/ a.kind = b.kind /\ a.id = b.id /\ a.version < b.version

OsmFiles ==
    { f \in UNION { [1..n -> RawRecords] : n \in 1..MaxFile } :
        \A i \in 1..(Len(f) - 1) : Before(f[i], f[i + 1]) }

\* mutant: the test of the callbacks is len(batch) > batch_size
BatchFull_late(recs) == Len(recs) > batch_size

\* `if len(self.node_batch) >= self.batch_size`
BatchFull(recs) == Len(recs) >= batch_size

\* mutant: ON CONFLICT (id) DO NOTHING
Upsert_keepFirst(tbl, rec) ==
    IF rec.id \in DOMAIN tbl THEN tbl ELSE Put(tbl, rec.id, rec)

\* INSERT ... ON CONFLICT (id) DO UPDATE SET <every column> = EXCLUDED.<column>
Upsert(tbl, rec) == Put(tbl, rec.id, rec)

\* cur.executemany(insert_sql, batch): one statement per record, in order
RECURSIVE executemany(_, _)
executemany(tbl, recs) ==
    IF recs = <<>> THEN tbl ELSE executemany(Upsert(tbl, Head(recs)), Tail(recs))

\* how a flush can end: "ok"; "error": executemany or commit raises and
\* conn.rollback() returns; "lost": the connection is lost, rollback raises
\* too.  node_refs = list(w.nodes) is a list of osmium NodeRef objects, which
\* psycopg cannot adapt: executemany raises for a batch that holds one.
FlushOutcomes(recs) ==
    IF \E i \in 1..Len(recs) : recs[i].has_refs
    THEN {"error", "lost"}
    ELSE {"ok", "error", "lost"}

\* mutant: a batch whose flush failed is kept for the next flush
AfterFlush_keep(recs, out) == IF out = "ok" THEN <<>> ELSE recs

\* `finally: self.node_batch = []`
AfterFlush(recs, out) == <<>>

\* the loader and the store, as one value
LoaderState ==
    [batch |-> batch, stats |-> stats, osm_data |-> osm_data,
     submitted |-> submitted, discarded |-> discarded,
     flush_failed |-> flush_failed, last_flush |-> last_flush]

\* the first lines of a callback: stats['<kind>s_processed'] += 1 and
\* self.<kind>_batch.append({...})
Appended(st, rec) ==
    [st EXCEPT !.stats.processed[rec.kind] = @ + 1,
               !.batch[rec.kind] = Append(@, rec)]

\* _insert_node_batch / _insert_way_batch / _insert_relation_batch: nothing
\* for an empty batch (nor when an earlier flush of finalize raised);
\* executemany, commit and the inserted counter; on an exception rollback;
\* finally the batch is emptied
Flushed(st, k, out) ==
    IF st.batch[k] = <<>> \/ st.last_flush = "lost" THEN st
    ELSE IF out = "ok"
    THEN [st EXCEPT !.osm_data[k] = executemany(@, st.batch[k]),
                    !.stats.inserted[k] = @ + Len(st.batch[k]),
                    !.submitted[k] = @ \o st.batch[k],
                    !.batch[k] = AfterFlush(@, out),
                    !.last_flush = out]
    ELSE [st EXCEPT !.submitted[k] = @ \o st.batch[k],
                    !.discarded[k] = @ + Len(st.batch[k]),
                    !.flush_failed[k] = @ + 1,
                    !.batch[k] = AfterFlush(@, out),
                    !.last_flush = out]

InitBatch ==
    /\ osm_file \in OsmFiles
    /\ file_pos = 0
    /\ raw_loads = 0
    /\ batch_pc = "idle"
    /\ batch = [k \in Kinds |-> <<>>]
    /\ stats = [processed |-> [k \in Kinds |-> 0], inserted |-> [k \in Kinds |-> 0]]
    /\ osm_data = [k \in Kinds |-> <<>>]
    /\ submitted = [k \in Kinds |-> <<>>]
    /\ discarded = [k \in Kinds |-> 0]
    /\ flush_failed = [k \in Kinds |-> 0]
    /\ last_flush = "none"
    /\ osm_data_after = <<>>

BatchOnly ==
    UNCHANGED <<loadVars, retryVars, filterVars, decodeVars, classifyVars, extractVars>>

\* load_osm_file up to apply_file: psycopg.connect and a new OSMDatabaseLoader
load_osm_file ==
    /\ batch_pc \in {"idle", "done", "aborted"}
    /\ raw_loads < MaxRawLoads
    /\ raw_loads' = raw_loads + 1
    /\ batch_pc' = "apply"
    /\ file_pos' = 0
    /\ batch' = [k \in Kinds |-> <<>>]
    /\ stats' = [processed |-> [k \in Kinds |-> 0], inserted |-> [k \in Kinds |-> 0]]
    /\ submitted' = [k \in Kinds |-> <<>>]
    /\ discarded' = [k \in Kinds |-> 0]
    /\ flush_failed' = [k \in Kinds |-> 0]
    /\ last_flush' = "none"
    /\ UNCHANGED <<osm_file, osm_data, osm_data_after>>
    /\ BatchOnly

\* node(n): count, append, flush when the batch is full.  An exception that
\* leaves the flush leaves apply_file; load_osm_file logs it and returns False.
OSMDatabaseLoader_node(out) ==
    /\ batch_pc = "apply"
    /\ file_pos < Len(osm_file)
    /\ osm_file[file_pos + 1].kind = "node"
    /\ LET st == Appended(LoaderState, osm_file[file_pos + 1])
           full == BatchFull(st.batch["node"])
           end == IF full THEN Flushed(st, "node", out) ELSE st
       IN /\ out \in (IF full THEN FlushOutcomes(st.batch["node"]) ELSE {"ok"})
          /\ batch' = end.batch
          /\ stats' = end.stats
          /\ osm_data' = end.osm_data
          /\ submitted' = end.submitted
          /\ discarded' = end.discarded
          /\ flush_failed' = end.flush_failed
          /\ last_flush' = end.last_flush
          /\ batch_pc' = IF end.last_flush = "lost" THEN "aborted" ELSE "apply"
    /\ file_pos' = file_pos + 1
    /\ UNCHANGED <<osm_file, raw_loads, osm_data_after>>
    /\ BatchOnly

\* way(w)
OSMDatabaseLoader_way(out) ==
    /\ batch_pc = "apply"
    /\ file_pos < Len(osm_file)
    /\ osm_file[file_pos + 1].kind = "way"
    /\ LET st == Appended(LoaderState, osm_file[file_pos + 1])
           full == BatchFull(st.batch["way"])
           end == IF full THEN Flushed(st, "way", out) ELSE st
       IN /\ out \in (IF full THEN FlushOutcomes(st.batch["way"]) ELSE {"ok"})
          /\ batch' = end.batch
          /\ stats' = end.stats
          /\ osm_data' = end.osm_data
          /\ submitted' = end.submitted
          /\ discarded' = end.discarded
          /\ flush_failed' = end.flush_failed
          /\ last_flush' = end.last_flush
          /\ batch_pc' = IF end.last_flush = "lost" THEN "aborted" ELSE "apply"
    /\ file_pos' = file_pos + 1
    /\ UNCHANGED <<osm_file, raw_loads, osm_data_after>>
    /\ BatchOnly

\* relation(r)
OSMDatabaseLoader_relation(out) ==
    /\ batch_pc = "apply"
    /\ file_pos < Len(osm_file)
    /\ osm_file[file_pos + 1].kind = "relation"
    /\ LET st == Appended(LoaderState, osm_file[file_pos + 1])
           full == BatchFull(st.batch["relation"])
           end == IF full THEN Flushed(st, "relation", out) ELSE st
       IN /\ out \in (IF full THEN FlushOutcomes(st.batch["relation"]) ELSE {"ok"})
          /\ batch' = end.batch
          /\ stats' = end.stats
          /\ osm_data' = end.osm_data
          /\ submitted' = end.submitted
          /\ discarded' = end.discarded
          /\ flush_failed' = end.flush_failed
          /\ last_flush' = end.last_flush
          /\ batch_pc' = IF end.last_flush = "lost" THEN "aborted" ELSE "apply"
    /\ file_pos' = file_pos + 1
    /\ UNCHANGED <<osm_file, raw_loads, osm_data_after>>
    /\ BatchOnly

\* apply_file has returned: loader.finalize() flushes the three batches in
\* turn; then the statistics are logged and load_osm_file returns True
finalize(o1, o2, o3) ==
    /\ batch_pc = "apply"
    /\ file_pos = Len(osm_file)
    /\ o1 \in (IF batch["node"] = <<>> THEN {"ok"} ELSE FlushOutcomes(batch["node"]))
    /\ o2 \in (IF batch["way"] = <<>> \/ o1 = "lost"
               THEN {"ok"} ELSE FlushOutcomes(batch["way"]))
    /\ o3 \in (IF batch["relation"] = <<>> \/ "lost" \in {o1, o2}
               THEN {"ok"} ELSE FlushOutcomes(batch["relation"]))
    /\ LET end == Flushed(Flushed(Flushed(LoaderState, "node", o1), "way", o2),
                          "relation", o3)
       IN /\ batch' = end.batch
          /\ stats' = end.stats
          /\ osm_data' = end.osm_data
          /\ submitted' = end.submitted
          /\ discarded' = end.discarded
          /\ flush_failed' = end.flush_failed
          /\ last_flush' = end.last_flush
          /\ batch_pc' = IF end.last_flush = "lost" THEN "aborted" ELSE "done"
          /\ osm_data_after' =
                IF end.last_flush = "lost" THEN osm_data_after
                ELSE Append(osm_data_after,
                            [tables |-> end.osm_data,
                             clean |-> \A k \in Kinds : end.flush_failed[k] = 0])
    /\ UNCHANGED <<osm_file, file_pos, raw_loads>>
    /\ BatchOnly

NextBatch ==
    \/ load_osm_file
    \/ \E out \in {"ok", "error", "lost"} : OSMDatabaseLoader_node(out)
    \/ \E out \in {"ok", "error", "lost"} : OSMDatabaseLoader_way(out)
    \/ \E out \in {"ok", "error", "lost"} : OSMDatabaseLoader_relation(out)
    \/ \E o1, o2, o3 \in {"ok", "error", "lost"} : finalize(o1, o2, o3)

\* only raw loads run
BatchInit ==
    IdleLoad /\ IdleRetry /\ IdleFilter /\ IdleDecode /\ IdleClassify /\ InitBatch
    /\ IdleExtract

SpecBatch == BatchInit /\ [][NextBatch]_vars

\* the records of one kind of the file, in stream order
OfKind(k) == SelectSeq(osm_file, LAMBDA r : r.kind = k)

\* C22: a batch of the raw loader is flushed exactly when it reaches
\* batch_size or at finalize: after every callback each pending batch is
\* shorter than batch_size, while the file is read only whole batches have
\* been submitted and every processed record is either submitted or pending,
\* and after finalize the three batches are empty and the records of the
\* file have been submitted once each, in order.
C22_BatchFlushDiscipline ==
    \A k \in Kinds :
        /\ Len(batch[k]) < batch_size
        /\ submitted[k] \o batch[k] = SubSeq(OfKind(k), 1, stats.processed[k])
        /\ batch_pc = "apply" => Len(submitted[k]) % batch_size = 0
        /\ batch_pc = "done" => batch[k] = <<>> /\ submitted[k] = OfKind(k)

\* a full batch was flushed by a callback and the rest at finalize
C22_Witness ==
    /\ batch_pc = "done"
    /\ Len(submitted["node"]) = batch_size + 1
    /\ Len(submitted["relation"]) = 1

\* a flush of the batch of kind k fails in this step
FlushFails(k) == flush_failed'[k] > flush_failed[k]

\* inserted <= processed, and processed = inserted + pending + discarded
Accounting ==
    \A k \in Kinds :
        /\ stats.inserted[k] <= stats.processed[k]
        /\ stats.processed[k] = stats.inserted[k] + Len(batch[k]) + discarded[k]

\* C29, as stated: a failed flush is rolled back, its batch is emptied
\* without a retry, inserted is unchanged and the load goes on, so that
\* later batches are still flushed; the counters stay consistent.
C29_FailedFlushNeverAborts ==
    /\ []Accounting
    /\ [][\A k \in Kinds : FlushFails(k) =>
            /\ batch'[k] = <<>>
            /\ stats'.inserted[k] = stats.inserted[k]
            /\ batch_pc' \in {"apply", "done"}]_vars

\* C29, amended: a failed flush empties its batch without a retry and leaves
\* inserted and the table unchanged; the load goes on exactly when the
\* rollback succeeded, and is given up (load_osm_file returns False, the
\* other pending batches are not flushed) when the rollback raised too; the
\* counters stay consistent in both cases.
C29_FailedFlushDiscardsBatch ==
    /\ []Accounting
    /\ [](batch_pc = "aborted" <=> last_flush = "lost")
    /\ [][\A k \in Kinds : FlushFails(k) =>
            /\ batch'[k] = <<>>
            /\ stats'.inserted[k] = stats.inserted[k]
            /\ osm_data'[k] = osm_data[k]]_vars

\* a flush of nodes failed and was rolled back, and the relations that came
\* after it were flushed at finalize
C29_Witness ==
    /\ batch_pc = "done"
    /\ flush_failed["node"] = 1
    /\ discarded["node"] = batch_size
    /\ stats.inserted["relation"] = 1

\* the rows a file should leave: for every id, the last record of that id
LastVersions(recs) ==
    [i \in { recs[j].id : j \in 1..Len(recs) } |->
        LET last == CHOOSE j \in 1..Len(recs) :
                        /\ recs[j].id = i
                        /\ \A l \in (j + 1)..Len(recs) : recs[l].id # i
        IN recs[last]]

\* a table, as the set of its rows
Rows(tbl) == { tbl[i] : i \in DOMAIN tbl }

\* C30: when no flush fails, a raw load leaves for every id of the file one
\* row with the fields of the last record of that id, and a second load of
\* the same file leaves the tables as the first left them.
C30_LastVersionWinsIdempotent ==
    /\ \A n \in 1..Len(osm_data_after) : osm_data_after[n].clean =>
          \A k \in Kinds :
             /\ DOMAIN osm_data_after[n].tables[k] = DOMAIN LastVersions(OfKind(k))
             /\ Rows(osm_data_after[n].tables[k]) = Rows(LastVersions(OfKind(k)))
    /\ (Len(osm_data_after) = 2 /\ osm_data_after[1].clean /\ osm_data_after[2].clean)
         => osm_data_after[2].tables = osm_data_after[1].tables

\* the file holds two versions of a node and was loaded twice without a
\* failed flush
C30_Witness ==
    /\ Len(osm_data_after) = 2
    /\ osm_data_after[1].clean /\ osm_data_after[2].clean
    /\ \E i \in 1..(Len(osm_file) - 1) :
          /\ osm_file[i].kind = "node" /\ osm_file[i + 1].kind = "node"
          /\ osm_file[i].id = osm_file[i + 1].id

\* ---------------------------------------------------- extract_mariupol_data
\* extract_mariupol_data of extract_mariupol_data.py: the writer, the pass over
\* the input and the clean-up.  input_keeps[i] tells whether the callback of
\* MariupolExtractor writes the i-th object of the input.

MaxInput == 4

InputFiles == UNION { [1..n -> BOOLEAN] : n \in 0..MaxInput }

\* mutant: the except clause leaves the partial file
Unlinked_kept(file) == file

\* `if output_file.exists(): output_file.unlink()`
Unlinked(file) == NoFile

InitExtract ==
    /\ input_keeps \in InputFiles
    /\ input_pos = 0
    /\ extract_pc = "idle"
    /\ output_file \in {NoFile, [exists |-> TRUE, objects |-> <<>>]}
    /\ writer_closed = FALSE
    /\ extract_result = "none"

ExtractOnly ==
    UNCHANGED <<loadVars, retryVars, filterVars, decodeVars, classifyVars, batchVars>>

\* writer = osmium.SimpleWriter(str(output_file)), before the try: the file
\* is created; the writer does not overwrite, so with a file already at the
\* path the constructor raises and the exception leaves the function
SimpleWriter ==
    /\ extract_pc = "idle"
    /\ IF output_file.exists
       THEN /\ extract_pc' = "done"
            /\ extract_result' = "raised"
            /\ UNCHANGED output_file
       ELSE /\ extract_pc' = "apply"
            /\ output_file' = [exists |-> TRUE, objects |-> <<>>]
            /\ UNCHANGED extract_result
    /\ UNCHANGED <<input_keeps, input_pos, writer_closed>>
    /\ ExtractOnly

\* handler.apply_file: one object is read and, when kept, written
apply_file ==
    /\ extract_pc = "apply"
    /\ input_pos < Len(input_keeps)
    /\ input_pos' = input_pos + 1
    /\ output_file' =
          IF input_keeps[input_pos + 1]
          THEN [output_file EXCEPT !.objects = Append(@, input_pos + 1)]
          ELSE output_file
    /\ UNCHANGED <<input_keeps, extract_pc, writer_closed, extract_result>>
    /\ ExtractOnly

\* apply_file raises (unreadable input, a callback or a write that fails):
\* `except Exception`: the partial file is removed, return False
apply_file_raises ==
    /\ extract_pc = "apply"
    /\ output_file' = Unlinked(output_file)
    /\ extract_pc' = "done"
    /\ extract_result' = "False"
    /\ UNCHANGED <<input_keeps, input_pos, writer_closed>>
    /\ ExtractOnly

\* apply_file has returned: writer.close(), the messages, return True; a
\* close that raises is handled like any other exception
writer_close(ok) ==
    /\ extract_pc = "apply"
    /\ input_pos = Len(input_keeps)
    /\ extract_pc' = "done"
    /\ writer_closed' = ok
    /\ extract_result' = IF ok THEN "True" ELSE "False"
    /\ output_file' = IF ok THEN output_file ELSE Unlinked(output_file)
    /\ UNCHANGED <<input_keeps, input_pos>>
    /\ ExtractOnly

NextExtract ==
    \/ SimpleWriter
    \/ apply_file
    \/ apply_file_raises
    \/ \E ok \in BOOLEAN : writer_close(ok)

\* only an extraction runs
ExtractInit ==
    IdleLoad /\ IdleRetry /\ IdleFilter /\ IdleDecode /\ IdleClassify /\ IdleBatch
    /\ InitExtract

SpecExtract == ExtractInit /\ [][NextExtract]_vars

\* the objects the callbacks keep, by position in the input
Kept == SelectSeq([i \in 1..Len(input_keeps) |-> i], LAMBDA i : input_keeps[i])

\* C24: when processing raises, extract_mariupol_data returns False and no
\* file is left at the output path; it returns True only after the whole
\* stream was processed and the writer was closed.
C24_NoPartialOutput ==
    /\ extract_result = "False" => ~output_file.exists
    /\ extract_result = "True" =>
          /\ input_pos = Len(input_keeps)
          /\ writer_closed
          /\ output_file = [exists |-> TRUE, objects |-> Kept]

\* processing raised after an object had been written
C24_Witness ==
    /\ extract_result = "False"
    /\ ~writer_closed
    /\ \E i \in 1..input_pos : input_keeps[i]

\* ------------------------------------------------ the geometry of an Entity
\* geometry_wkt=row['geometry'].wkt of insert_entity: the geometry of the row
\* after gdf['geometry'].buffer(0)
StoredGeometry(row) == Buffer0(row.geom_type)

\* C21 (as claimed): the Entity a load creates for an accepted primitive has
\* the type its tag rule gives and a stored geometry of the kind of the
\* primitive: a point for a node, a line for a way.
C21_EntityKeepsGeometryKind ==
    (classify_pc = "inserted" /\ classifier = 2) =>
        /\ Rules # "unknown" => mapped_entity_type.valid = Rules
        /\ StoredGeometry(feature_row) = feature_row.geom_type

====
